---- MODULE Spec2Model ----
(***************************************************************************)
(* A model of chessoteric: the bitboard primitives, the board and move     *)
(* model, the legal move generator, and the SimpleAi iterative-deepening   *)
(* search with its worker thread.                                          *)
(*                                                                         *)
(* A Bitboard (u64) is modelled as the set of its set bit indices, so the  *)
(* bitwise operators are the set operators, a left shift by n adds n to    *)
(* every element and drops what leaves 0..63, and a rotation adds modulo   *)
(* 64.                                                                     *)
(***************************************************************************)
EXTENDS Integers, Sequences, FiniteSets, TLC

\* ------------------------------------------------------------------------
\* Bounds of the model
\* ------------------------------------------------------------------------

\* Plies played from a start position in the board exploration.
MaxPly == 2

\* Epochs a search may begin and nodes its tree may hold, where one search
\* is followed through its passes.
MaxEpoch == 3
MaxNodes == 120

\* The same two bounds where the commands are explored around the searches.
LifecycleEpochs == 2
LifecycleNodes == 2

\* Searches started and engines loaded by the commands, and clock ticks.
MaxStarts == 2
MaxLoads == 1
MaxTime == 1

\* ------------------------------------------------------------------------
\* Bitboard primitives (core/src/bitboard.rs)
\* ------------------------------------------------------------------------

Squares == 0..63

\* The element of a one-element set. In {e : x \in {v}} the value v of a
\* local or of an argument is computed once and named x, the way the code
\* computes it once and keeps it in a variable.
Only(S) == CHOOSE x \in S : TRUE

FILE(f) == {s \in Squares : s % 8 = f}
RANK(r) == {s \in Squares : s \div 8 = r}

FILE_A == FILE(0)
FILE_B == FILE(1)
FILE_G == FILE(6)
FILE_H == FILE(7)
RANK_1 == RANK(0)
RANK_3 == RANK(2)
RANK_6 == RANK(5)
RANK_8 == RANK(7)

\* !x on a u64
Not(S) == Squares \ S

\* x << n and x >> n on a u64: bits shifted out are lost
Shl(S, n) == {s + n : s \in {x \in S : x + n <= 63}}
Shr(S, n) == {s - n : s \in {x \in S : x >= n}}

\* u64::rotate_left
RotateLeft(S, n) == {(s + n) % 64 : s \in S}

Directions ==
    <<"NorthEast", "East", "SouthEast", "South", "SouthWest", "West", "NorthWest", "North">>

\* Direction as u8 as usize, 0-based as in the source
DirIndex(d) == CHOOSE i \in 0..7 : Directions[i + 1] = d

as_offset(d) ==
    CASE d = "NorthEast" -> 9
      [] d = "East" -> 1
      [] d = "SouthEast" -> -7
      [] d = "South" -> -8
      [] d = "SouthWest" -> -9
      [] d = "West" -> -1
      [] d = "NorthWest" -> 7
      [] d = "North" -> 8

\* Direction::shift on a square index: None (here 64) when the u8 result is
\* not below 64. A subtraction below zero overflows the u8: it panics in a
\* debug build and wraps to a value of at least 64 in a release build, and
\* every caller unwraps the result, so both builds end in a panic: None.
NoSquare == 64
shift(d, index) ==
    LET result == index + as_offset(d)
    IN IF result >= 0 /\ result < 64 THEN result ELSE NoSquare

\* Bitboard::AVOID_WRAP, by direction index
AVOID_WRAP ==
    << Not(FILE_A \cup RANK_1),   \* 0xfefefefefefefe00
       Not(FILE_A),               \* 0xfefefefefefefefe
       Not(FILE_A \cup RANK_8),   \* 0x00fefefefefefefe
       Not(RANK_8),               \* 0x00ffffffffffffff
       Not(FILE_H \cup RANK_8),   \* 0x007f7f7f7f7f7f7f
       Not(FILE_H),               \* 0x7f7f7f7f7f7f7f7f
       Not(FILE_H \cup RANK_1),   \* 0x7f7f7f7f7f7f7f00
       Not(RANK_1) >>             \* 0xffffffffffffff00

\* Bitboard::SHIFT, by direction index
SHIFT == <<9, 1, 57, 56, 55, 63, 7, 8>>

shift_one(self, d) ==
    RotateLeft(self, SHIFT[DirIndex(d) + 1]) \cap AVOID_WRAP[DirIndex(d) + 1]

RECURSIVE FillLoop(_, _, _, _)
FillLoop(current, fill, occlusion, r) ==
    IF current = {} THEN fill
    ELSE Only({FillLoop(c, fill \cup c, occlusion, r) :
                   c \in {RotateLeft(current, r) \ occlusion}})

occluded_fill(self, occlusion, d) ==
    IF self = {} THEN {}
    ELSE Only({FillLoop(self, {}, occ, SHIFT[DirIndex(d) + 1]) :
                   occ \in {occlusion \cup Not(AVOID_WRAP[DirIndex(d) + 1])}})

sliding_attack(self, occlusion, d) ==
    Only({shift_one(next \cup self, d) \cup next : next \in {occluded_fill(self, occlusion, d)}})

surrounding_mask(self) ==
    Shl(self, 8) \cup Shr(self, 8)
    \cup Shl(self \ FILE_H, 1) \cup Shr(self \ FILE_A, 1)
    \cup Shl(self \ FILE_H, 9) \cup Shr(self \ FILE_A, 9)
    \cup Shr(self \ FILE_H, 7) \cup Shl(self \ FILE_A, 7)

\* u64::ilog2 of a non-zero word: the index of its highest set bit
ilog2(S) == CHOOSE s \in S : \A t \in S : t <= s

\* Bitboard::scan: the iterator takes ilog2 of what is left and clears it
RECURSIVE scan(_)
scan(self) ==
    Only({IF bits = {} THEN <<>>
          ELSE Only({<<lsb_index>> \o scan(bits \ {lsb_index}) : lsb_index \in {ilog2(bits)}}) :
          bits \in {self}})

\* Bitboard::scan_bitboard: x & (x - 1) clears the lowest set bit; each item
\* is the one-bit board that was cleared
RECURSIVE scan_bitboard(_)
scan_bitboard(self) ==
    Only({IF bits = {} THEN <<>>
          ELSE Only({<<{low}>> \o scan_bitboard(bits \ {low}) :
                         low \in {CHOOSE s \in bits : \A t \in bits : s <= t}}) :
          bits \in {self}})

FileChars == <<"a", "b", "c", "d", "e", "f", "g", "h">>
RankChars == <<"1", "2", "3", "4", "5", "6", "7", "8">>

\* square_to_algebraic, as the sequence of its two characters
square_to_algebraic(square) ==
    <<FileChars[(square % 8) + 1], RankChars[(square \div 8) + 1]>>

\* ------------------------------------------------------------------------
\* Board (core/src/board.rs)
\* ------------------------------------------------------------------------

\* The colourless piece types, in the order of Board::bitboards
PieceTypes == <<"Pawn", "Knight", "Bishop", "Rook", "Queen", "King">>
PieceSet == {"Pawn", "Knight", "Bishop", "Rook", "Queen", "King"}

White == "White"
Black == "Black"

opposite(color) == IF color = White THEN Black ELSE White

\* Board::empty, with the flags and the en passant square then set by the
\* conversion from the square-centric board
EmptyBitboards == [p \in PieceSet |-> {}]

\* From<SquareCentricBoard> for Board: squares is a function from the
\* occupied squares to <<colour, piece type>>
BoardFromSquares(squares, flags, en_passant_square) ==
    [bitboards |-> [p \in PieceSet |-> {s \in DOMAIN squares : squares[s][2] = p}],
     white |-> {s \in DOMAIN squares : squares[s][1] = White},
     occupied |-> DOMAIN squares,
     flags |-> flags,
     en_passant_square |-> en_passant_square]

get(board, piece) == board.bitboards[piece]

next_to_move(board) == IF "WHITE_TO_MOVE" \in board.flags THEN White ELSE Black

\* occupied ^ white
friendly_bitboard(board) ==
    IF "WHITE_TO_MOVE" \in board.flags THEN board.white
    ELSE (board.occupied \ board.white) \cup (board.white \ board.occupied)

enemy_bitboard(board) ==
    IF "WHITE_TO_MOVE" \in board.flags
    THEN (board.occupied \ board.white) \cup (board.white \ board.occupied)
    ELSE board.white

\* Board::verify
verify(board) ==
    /\ \A i \in 1..6 : \A j \in 1..(i - 1) :
          board.bitboards[PieceTypes[i]] \cap board.bitboards[PieceTypes[j]] = {}
    /\ UNION {board.bitboards[p] : p \in PieceSet} = board.occupied
    /\ board.white \cap board.occupied = board.white

\* Color::minmax_ini, Color::minmax, Color::minmax_cmp on f32 scores. The
\* evaluator returns whole numbers, far below INFINITY in absolute value.
INFINITY == 1000000
NEG_INFINITY == 0 - INFINITY

\* The worst score for White, whichever side is asked about
minmax_ini_of_white(color) == NEG_INFINITY

minmax_ini(color) == IF color = White THEN NEG_INFINITY ELSE INFINITY

minmax(color, a, b) ==
    IF color = White THEN (IF a >= b THEN a ELSE b) ELSE (IF a <= b THEN a ELSE b)

\* A comparison that also holds between equal scores: with it a later
\* sibling of equal score replaces the best one
minmax_cmp_or_equal(color, a, b) == IF color = White THEN a >= b ELSE a <= b

minmax_cmp(color, a, b) == IF color = White THEN a > b ELSE a < b

\* ------------------------------------------------------------------------
\* Moves (core/src/moves.rs)
\* ------------------------------------------------------------------------

NoPiece == "None"

Move(from, to, piece, promotion, flags) ==
    [from |-> from, to |-> to, piece |-> piece, promotion |-> promotion, flags |-> flags]

\* Piece::symbol of the piece with_color(Black): the lower-case letter
PromotionSymbol(piece) ==
    CASE piece = "Queen" -> "q"
      [] piece = "Rook" -> "r"
      [] piece = "Bishop" -> "b"
      [] piece = "Knight" -> "n"
      [] piece = "Pawn" -> "p"
      [] piece = "King" -> "k"

\* Move::uci, as the sequence of the characters written
uci(m) ==
    square_to_algebraic(m.from) \o square_to_algebraic(m.to)
    \o (IF m.promotion # NoPiece THEN <<PromotionSymbol(m.promotion)>> ELSE <<>>)

\* A rook generator that lacks the moves to the west: a generator the
\* properties of the check flag must tell from generate_rook_movement
rook_movement_without_west(occlusion, origin) ==
    Only({sliding_attack(org, occ, "East")
          \cup sliding_attack(org, occ, "North")
          \cup sliding_attack(org, occ, "South") : occ \in {occlusion}, org \in {origin}})

generate_rook_movement(occlusion, origin) ==
    Only({sliding_attack(org, occ, "East")
          \cup sliding_attack(org, occ, "West")
          \cup sliding_attack(org, occ, "North")
          \cup sliding_attack(org, occ, "South") : occ \in {occlusion}, org \in {origin}})

generate_bishop_movement(occlusion, origin) ==
    Only({sliding_attack(org, occ, "NorthEast")
          \cup sliding_attack(org, occ, "SouthWest")
          \cup sliding_attack(org, occ, "NorthWest")
          \cup sliding_attack(org, occ, "SouthEast") : occ \in {occlusion}, org \in {origin}})

generate_queen_movement(occlusion, origin) ==
    Only({generate_rook_movement(occ, org) \cup generate_bishop_movement(occ, org) :
              occ \in {occlusion}, org \in {origin}})

generate_knight_movement(origin) ==
    LET l1(org) == Shr(org, 1) \ FILE_H                  \* & 0x7f7f7f7f7f7f7f7f
        l2(org) == Shr(org, 2) \ (FILE_G \cup FILE_H)    \* & 0x3f3f3f3f3f3f3f3f
        r1(org) == Shl(org, 1) \ FILE_A                  \* & 0xfefefefefefefefe
        r2(org) == Shl(org, 2) \ (FILE_A \cup FILE_B)    \* & 0xfcfcfcfcfcfcfcfc
    IN Only({Shl(h1, 16) \cup Shr(h1, 16) \cup Shl(h2, 8) \cup Shr(h2, 8) :
                 h1 \in {l1(origin) \cup r1(origin)}, h2 \in {l2(origin) \cup r2(origin)}})

generate_king_movement(origin) == surrounding_mask(origin)

generate_pawn_attacks(origin, color) ==
    IF color = White
    THEN (Shl(origin, 9) \ FILE_A) \cup (Shl(origin, 7) \ FILE_H)
    ELSE (Shr(origin, 7) \ FILE_A) \cup (Shr(origin, 9) \ FILE_H)

\* ------------------------------------------------------------------------
\* generate_moves (core/src/moves.rs)
\* ------------------------------------------------------------------------

RECURSIVE Flatten(_)
Flatten(ss) ==
    Only({IF rest = <<>> THEN <<>> ELSE Head(rest) \o Flatten(Tail(rest)) : rest \in {ss}})

\* for x in xs { ... push ... }: the pushes of every iteration, in order
ForEach(xs, Body(_)) == Only({Flatten([i \in 1..Len(items) |-> Body(items[i])]) : items \in {xs}})

PromotionPieces == <<"Queen", "Rook", "Bishop", "Knight">>

signum(x) == IF x > 0 THEN 1 ELSE IF x < 0 THEN -1 ELSE 0

\* The enemy attack set: sliders see through the friendly king
AllEnemyAttacks(board) ==
    LET enemy == enemy_bitboard(board)
        ally_king_bitboard == get(board, "King") \cap friendly_bitboard(board)
        rook_like_enemy == (get(board, "Rook") \cup get(board, "Queen")) \cap enemy
        bishop_like_enemy == (get(board, "Bishop") \cup get(board, "Queen")) \cap enemy
        board_occupied_except_king == board.occupied \ ally_king_bitboard
    IN generate_rook_movement(board_occupied_except_king, rook_like_enemy)
       \cup generate_bishop_movement(board_occupied_except_king, bishop_like_enemy)
       \cup generate_knight_movement(get(board, "Knight") \cap enemy)
       \cup generate_pawn_attacks(get(board, "Pawn") \cap enemy, opposite(next_to_move(board)))
       \cup generate_king_movement(get(board, "King") \cap enemy)

\* The block that computes the check mask, the pinned pieces and
\* currently_in_check
CheckAndPins(board) ==
    LET friendly == friendly_bitboard(board)
        enemy == enemy_bitboard(board)
        ally_king_bitboard == get(board, "King") \cap friendly
        rook_like_enemy == (get(board, "Rook") \cup get(board, "Queen")) \cap enemy
        bishop_like_enemy == (get(board, "Bishop") \cup get(board, "Queen")) \cap enemy
        knight_enemy == get(board, "Knight") \cap enemy
        pawn_like_enemy == get(board, "Pawn") \cap enemy
    IN
    Only({
    LET king_rook_friendly_blocker == king_rook_ray \cap friendly
        king_bishop_friendly_blocker == king_bishop_ray \cap friendly
        king_rook_xray ==
            generate_rook_movement(board.occupied \ king_rook_friendly_blocker, ally_king_bitboard)
        king_bishop_xray ==
            generate_bishop_movement(board.occupied \ king_bishop_friendly_blocker, ally_king_bitboard)
        pinner_rook_squares == (king_rook_xray \cap rook_like_enemy) \ king_rook_ray
        pinner_bishop_squares == (king_bishop_xray \cap bishop_like_enemy) \ king_bishop_ray
    IN
    Only({
       [destination_filter_outside_king |->
            {s \in Not(friendly) :
                /\ \A c \in king_rook_checkers :
                      s \in (generate_rook_movement(board.occupied, {c}) \cap king_rook_ray) \cup {c}
                /\ \A c \in king_bishop_checkers :
                      s \in (generate_bishop_movement(board.occupied, {c}) \cap king_bishop_ray) \cup {c}
                /\ \A c \in king_knight_checkers \cup king_pawn_checkers : s = c},
        pinned_bitboard |->
            UNION {generate_rook_movement(board.occupied, {p}) \cap king_rook_ray :
                       p \in pinner_rook_squares}
            \cup UNION {generate_bishop_movement(board.occupied, {p}) \cap king_bishop_ray :
                       p \in pinner_bishop_squares},
        currently_in_check |->
            (king_rook_checkers \cup king_bishop_checkers
             \cup king_knight_checkers \cup king_pawn_checkers) # {}] :
       king_rook_checkers \in {king_rook_ray \cap rook_like_enemy},
       king_bishop_checkers \in {king_bishop_ray \cap bishop_like_enemy},
       king_knight_checkers \in {generate_knight_movement(ally_king_bitboard) \cap knight_enemy},
       king_pawn_checkers \in
           {generate_pawn_attacks(ally_king_bitboard, next_to_move(board)) \cap pawn_like_enemy}}) :
    king_rook_ray \in {generate_rook_movement(board.occupied, ally_king_bitboard)},
    king_bishop_ray \in {generate_bishop_movement(board.occupied, ally_king_bitboard)}})

\* One pawn move, or its four promotions
PawnMoveOrPromotions(from, to, can_promote) ==
    IF can_promote
    THEN [i \in 1..4 |-> Move(from, to, "Pawn", PromotionPieces[i], {})]
    ELSE <<Move(from, to, "Pawn", NoPiece, {})>>

\* Pawn pushes: single, then double
PawnPushes(board, filter) ==
    LET color == next_to_move(board)
        friendly_pawns == get(board, "Pawn") \cap friendly_bitboard(board)
        pawn_non_capture_single_moves ==
            IF color = White THEN Shl(friendly_pawns, 8) \ board.occupied
            ELSE Shr(friendly_pawns, 8) \ board.occupied
        pawn_non_capture_double_moves ==
            IF color = White
            THEN Shl(pawn_non_capture_single_moves \cap RANK_3, 8) \ board.occupied
            ELSE Shr(pawn_non_capture_single_moves \cap RANK_6, 8) \ board.occupied
        Single(to) ==
            PawnMoveOrPromotions(IF color = White THEN to - 8 ELSE to + 8, to,
                                 IF color = White THEN to >= 56 ELSE to <= 7)
        Double(to) ==
            <<Move(IF color = White THEN to - 16 ELSE to + 16, to, "Pawn", NoPiece, {})>>
    IN ForEach(scan(pawn_non_capture_single_moves \cap filter), Single)
       \o ForEach(scan(pawn_non_capture_double_moves \cap filter), Double)

\* The (direction, mask) pairs from a capture square back to the capturing pawn
CaptureDirs(color) ==
    IF color = White
    THEN << <<"SouthEast", Not(FILE_A)>>, <<"SouthWest", Not(FILE_H)>> >>
    ELSE << <<"NorthEast", Not(FILE_A)>>, <<"NorthWest", Not(FILE_H)>> >>

\* Pawn captures
PawnCaptures(board, filter) ==
    LET color == next_to_move(board)
        friendly_pawns == get(board, "Pawn") \cap friendly_bitboard(board)
        pawn_attacks == generate_pawn_attacks(friendly_pawns, color)
        pawn_capture_moves == (pawn_attacks \cap enemy_bitboard(board)) \cap filter
        dir == CaptureDirs(color)
        Capture(to) ==
            LET From(d) ==
                    LET from_square == shift(d[1], to)
                    IN IF from_square \in (d[2] \cap friendly_pawns)
                       THEN PawnMoveOrPromotions(from_square, to,
                                IF color = White THEN to >= 56 ELSE to <= 7)
                       ELSE <<>>
            IN ForEach(dir, From)
    IN [moves |-> ForEach(scan(pawn_capture_moves), Capture),
        panic |-> \E to \in pawn_capture_moves : \E i \in 1..2 : shift(dir[i][1], to) = NoSquare]

\* En passant captures (no file mask is applied to the origin square)
EnPassantMoves(board, filter) ==
    LET color == next_to_move(board)
        friendly_pawns == get(board, "Pawn") \cap friendly_bitboard(board)
        pawn_attacks == generate_pawn_attacks(friendly_pawns, color)
        \* u64::checked_shl(1, en_passant_square).unwrap_or(0)
        ep_bit == IF board.en_passant_square < 64 THEN {board.en_passant_square} ELSE {}
        dir == IF color = White THEN <<"SouthEast", "SouthWest">>
               ELSE <<"NorthEast", "NorthWest">>
        From(d) ==
            LET from_square == shift(d, board.en_passant_square)
            IN IF from_square \in friendly_pawns
               THEN <<Move(from_square, board.en_passant_square, "Pawn", NoPiece, {"EN_PASSANT"})>>
               ELSE <<>>
        taken == (pawn_attacks \cap filter) \cap ep_bit # {}
    IN [moves |-> IF taken THEN ForEach(dir, From) ELSE <<>>,
        panic |-> taken /\ \E i \in 1..2 : shift(dir[i], board.en_passant_square) = NoSquare]

\* Rook, bishop and queen moves: for each piece, for each destination
SliderMoves(board, filter, piece) ==
    LET pieces == get(board, piece) \cap friendly_bitboard(board)
        Attacks(sq) ==
            CASE piece = "Rook" -> generate_rook_movement(board.occupied, {sq})
              [] piece = "Bishop" -> generate_bishop_movement(board.occupied, {sq})
              [] piece = "Queen" -> generate_queen_movement(board.occupied, {sq})
        Piece(sq) ==
            LET To(to) == <<Move(sq, to, piece, NoPiece, {})>>
            IN ForEach(scan(Attacks(sq) \cap filter), To)
    IN ForEach(scan(pieces), Piece)

\* Knight moves: for each destination, for each knight that reaches it
KnightMoves(board, filter) ==
    LET knight_friendly == get(board, "Knight") \cap friendly_bitboard(board)
        knight_moves == generate_knight_movement(knight_friendly) \cap filter
        To(to) ==
            LET From(from) == <<Move(from, to, "Knight", NoPiece, {})>>
            IN ForEach(scan(generate_knight_movement({to}) \cap knight_friendly), From)
    IN ForEach(scan(knight_moves), To)

\* King moves
KingMoves(board, king_square, all_enemy_attacks) ==
    LET ally_king_bitboard == get(board, "King") \cap friendly_bitboard(board)
        king_moves ==
            (generate_king_movement(ally_king_bitboard) \ friendly_bitboard(board))
            \ all_enemy_attacks
        To(to) == <<Move(king_square, to, "King", NoPiece, {})>>
    IN ForEach(scan(king_moves), To)

\* Castling that also wants the rook's path free of attacks: the queen side
\* castle is refused when only the b-file square is attacked
castling_with_safe_rook_path(board, king_square, all_enemy_attacks, currently_in_check) ==
    LET threat_or_non_empty == board.occupied \cup all_enemy_attacks
        Castle(to) == <<Move(king_square, to, "King", NoPiece, {"CASTLE"})>>
    IN IF currently_in_check THEN <<>>
       ELSE IF next_to_move(board) = White
       THEN (IF "WHITE_KING_SIDE_CASTLE" \in board.flags
                /\ threat_or_non_empty \cap {5, 6} = {}
             THEN Castle(6) ELSE <<>>)
            \o (IF "WHITE_QUEEN_SIDE_CASTLE" \in board.flags
                   /\ threat_or_non_empty \cap {1, 2, 3} = {}
                   /\ board.occupied \cap {1, 2, 3} = {}
                THEN Castle(2) ELSE <<>>)
       ELSE (IF "BLACK_KING_SIDE_CASTLE" \in board.flags
                /\ threat_or_non_empty \cap {61, 62} = {}
             THEN Castle(62) ELSE <<>>)
            \o (IF "BLACK_QUEEN_SIDE_CASTLE" \in board.flags
                   /\ threat_or_non_empty \cap {57, 58, 59} = {}
                   /\ board.occupied \cap {57, 58, 59} = {}
                THEN Castle(58) ELSE <<>>)

\* Castling moves. 0x60 is {5, 6}, 0x0c is {2, 3}, 0x0e is {1, 2, 3}; the
\* black masks are the same squares of rank 8.
CastlingMoves(board, king_square, all_enemy_attacks, currently_in_check) ==
    LET threat_or_non_empty == board.occupied \cup all_enemy_attacks
        Castle(to) == <<Move(king_square, to, "King", NoPiece, {"CASTLE"})>>
    IN IF currently_in_check THEN <<>>
       ELSE IF next_to_move(board) = White
       THEN (IF "WHITE_KING_SIDE_CASTLE" \in board.flags
                /\ threat_or_non_empty \cap {5, 6} = {}
             THEN Castle(6) ELSE <<>>)
            \o (IF "WHITE_QUEEN_SIDE_CASTLE" \in board.flags
                   /\ threat_or_non_empty \cap {2, 3} = {}
                   /\ board.occupied \cap {1, 2, 3} = {}
                THEN Castle(2) ELSE <<>>)
       ELSE (IF "BLACK_KING_SIDE_CASTLE" \in board.flags
                /\ threat_or_non_empty \cap {61, 62} = {}
             THEN Castle(62) ELSE <<>>)
            \o (IF "BLACK_QUEEN_SIDE_CASTLE" \in board.flags
                   /\ threat_or_non_empty \cap {58, 59} = {}
                   /\ board.occupied \cap {57, 58, 59} = {}
                THEN Castle(58) ELSE <<>>)

\* A closure that keeps no move of a pinned piece
retain_unpinned(m, king_square, pinned_bitboard) == m.from \notin pinned_bitboard

\* The closure of moves.retain: a move of a pinned piece is kept only when
\* the king, the origin and the destination are aligned
PinRetain(m, king_square, pinned_bitboard) ==
    IF m.from \in pinned_bitboard
    THEN LET kx == king_square % 8
             ky == king_square \div 8
             from_dir_unit == <<signum((m.from % 8) - kx), signum((m.from \div 8) - ky)>>
             to_dir == <<(m.to % 8) - kx, (m.to \div 8) - ky>>
             a == to_dir[1] * from_dir_unit[1]
             b == to_dir[2] * from_dir_unit[2]
         IN IF a = 0 THEN (to_dir[1] = 0) /\ (from_dir_unit[1] = 0)
            ELSE IF b = 0 THEN (to_dir[2] = 0) /\ (from_dir_unit[2] = 0)
            ELSE IF a # b THEN FALSE
            ELSE TRUE
    ELSE TRUE

\* The move list of generate_moves as it stands before moves.retain, with
\* the king square and the pinned bitboard the closure of retain reads
moves_before_retain(board) ==
    Only({
    LET king_square == ilog2(get(board, "King") \cap friendly_bitboard(board))
        filter == cp.destination_filter_outside_king
        captures == PawnCaptures(board, filter)
        en_passant == EnPassantMoves(board, filter)
        moves ==
            PawnPushes(board, filter)
            \o captures.moves
            \o en_passant.moves
            \o SliderMoves(board, filter, "Rook")
            \o SliderMoves(board, filter, "Bishop")
            \o SliderMoves(board, filter, "Queen")
            \o KnightMoves(board, filter)
            \o KingMoves(board, king_square, all_enemy_attacks)
            \o CastlingMoves(board, king_square, all_enemy_attacks, cp.currently_in_check)
    IN [moves |-> moves,
        king_square |-> king_square,
        pinned_bitboard |-> cp.pinned_bitboard,
        currently_in_check |-> cp.currently_in_check,
        panic |-> captures.panic \/ en_passant.panic] :
    cp \in {CheckAndPins(board)}, all_enemy_attacks \in {AllEnemyAttacks(board)}})

\* generate_moves: the move list, currently_in_check, and whether the call
\* panics (square() takes ilog2 of an empty king bitboard, or a
\* Direction::shift result is unwrapped when None)
generate_moves(board) ==
    LET ally_king_bitboard == get(board, "King") \cap friendly_bitboard(board)
    IN IF ally_king_bitboard = {}
       THEN [moves |-> <<>>, currently_in_check |-> FALSE, panic |-> TRUE]
       ELSE
       Only({
       LET Keep(m) == PinRetain(m, before.king_square, before.pinned_bitboard)
       IN [moves |-> SelectSeq(before.moves, Keep),
           currently_in_check |-> before.currently_in_check,
           panic |-> before.panic] :
       before \in {moves_before_retain(board)}})

\* ------------------------------------------------------------------------
\* Move::apply (core/src/moves.rs)
\* ------------------------------------------------------------------------

\* The castling rights removed when only the mover's own king and rooks are
\* looked at: a piece landing on a corner of the other side removes none
mover_castling_rights(m, color) ==
    (IF m.piece = "King"
     THEN (IF color = White THEN {"WHITE_KING_SIDE_CASTLE", "WHITE_QUEEN_SIDE_CASTLE"}
           ELSE {"BLACK_KING_SIDE_CASTLE", "BLACK_QUEEN_SIDE_CASTLE"})
     ELSE {})
    \cup (IF color = White
          THEN (IF m.from = 0 THEN {"WHITE_QUEEN_SIDE_CASTLE"}
                ELSE IF m.from = 7 THEN {"WHITE_KING_SIDE_CASTLE"} ELSE {})
          ELSE (IF m.from = 56 THEN {"BLACK_QUEEN_SIDE_CASTLE"}
                ELSE IF m.from = 63 THEN {"BLACK_KING_SIDE_CASTLE"} ELSE {}))

\* The castling rights a move removes: both of the mover when the king
\* moves, the right of a corner the move lands on, and the right of the
\* mover's own corner the move leaves
RemovedCastlingRights(m, color) ==
    (IF m.piece = "King"
     THEN (IF color = White THEN {"WHITE_KING_SIDE_CASTLE", "WHITE_QUEEN_SIDE_CASTLE"}
           ELSE {"BLACK_KING_SIDE_CASTLE", "BLACK_QUEEN_SIDE_CASTLE"})
     ELSE {})
    \cup (CASE m.to = 0 -> {"WHITE_QUEEN_SIDE_CASTLE"}
            [] m.to = 7 -> {"WHITE_KING_SIDE_CASTLE"}
            [] m.to = 56 -> {"BLACK_QUEEN_SIDE_CASTLE"}
            [] m.to = 63 -> {"BLACK_KING_SIDE_CASTLE"}
            [] OTHER -> {})
    \cup (IF color = White
          THEN (IF m.from = 0 THEN {"WHITE_QUEEN_SIDE_CASTLE"}
                ELSE IF m.from = 7 THEN {"WHITE_KING_SIDE_CASTLE"} ELSE {})
          ELSE (IF m.from = 56 THEN {"BLACK_QUEEN_SIDE_CASTLE"}
                ELSE IF m.from = 63 THEN {"BLACK_KING_SIDE_CASTLE"} ELSE {}))

\* The rook move of a castle: <<rook from, rook to>>, or <<>> when the move
\* is no castle to one of the four castling squares
CastleRook(m) ==
    IF m.piece = "King" /\ "CASTLE" \in m.flags
    THEN CASE m.to = 6 -> <<7, 5>>
           [] m.to = 2 -> <<0, 3>>
           [] m.to = 62 -> <<63, 61>>
           [] m.to = 58 -> <<56, 59>>
           [] OTHER -> <<>>
    ELSE <<>>

\* OR of two bitboards: what ^= must not be, since it would leave the
\* origin of a move set
BitOr(S, T) == S \cup T

\* XOR of two bitboards
Xor(S, T) == (S \ T) \cup (T \ S)

\* A move carried out without the en passant bookkeeping: the piece goes
\* from its origin to its destination, the side to move changes, and the en
\* passant square is never set nor the pawn behind the destination removed
apply_without_en_passant(m, board) ==
    LET placed == IF m.promotion # NoPiece THEN m.promotion ELSE m.piece
    IN [bitboards |-> [p \in PieceSet |->
                          IF p = placed THEN (board.bitboards[p] \ {m.from}) \cup {m.to}
                          ELSE board.bitboards[p] \ {m.from, m.to}],
        white |-> IF next_to_move(board) = White THEN (board.white \ {m.from}) \cup {m.to}
                  ELSE board.white \ {m.from, m.to},
        occupied |-> (board.occupied \ {m.from}) \cup {m.to},
        flags |-> Xor(board.flags, {"WHITE_TO_MOVE"}),
        en_passant_square |-> 64]

apply(m, board) ==
    LET color == next_to_move(board)
        \* every bitboard loses the destination square
        cleared == [p \in PieceSet |-> board.bitboards[p] \ {m.to}]
        \* the mover leaves its origin; the destination takes the mover or
        \* the promotion piece
        moved ==
            IF m.promotion # NoPiece
            THEN LET left == [cleared EXCEPT ![m.piece] = @ \ {m.from}]
                 IN [left EXCEPT ![m.promotion] = @ \cup {m.to}]
            ELSE [cleared EXCEPT ![m.piece] = Xor(@, {m.from, m.to})]
        occupied1 == (board.occupied \ {m.from}) \cup {m.to}
        white1 == IF color = White THEN (board.white \ {m.from}) \cup {m.to}
                  ELSE (board.white \ {m.from}) \ {m.to}
        to_from == m.to - m.from
        double_push == m.piece = "Pawn" /\ (to_from = 16 \/ to_from = -16)
        en_passant_square ==
            IF double_push THEN (IF color = White THEN m.to - 8 ELSE m.to + 8) ELSE 64
        captured_pawn_square == IF color = White THEN m.to - 8 ELSE m.to + 8
        is_ep == "EN_PASSANT" \in m.flags
        bitboards2 == IF is_ep THEN [moved EXCEPT !["Pawn"] = @ \ {captured_pawn_square}]
                      ELSE moved
        occupied2 == IF is_ep THEN occupied1 \ {captured_pawn_square} ELSE occupied1
        white2 == IF is_ep THEN white1 \ {captured_pawn_square} ELSE white1
        flags2 == board.flags \ RemovedCastlingRights(m, color)
        rook == CastleRook(m)
        bitboards3 == IF rook # <<>>
                      THEN [bitboards2 EXCEPT !["Rook"] = (@ \ {rook[1]}) \cup {rook[2]}]
                      ELSE bitboards2
        occupied3 == IF rook # <<>> THEN (occupied2 \ {rook[1]}) \cup {rook[2]} ELSE occupied2
        \* only the white castles touch the white bitboard
        white3 == IF rook # <<>> /\ m.to \in {6, 2}
                  THEN (white2 \ {rook[1]}) \cup {rook[2]} ELSE white2
        flags3 == IF rook = <<>> THEN flags2
                  ELSE IF m.to \in {6, 2}
                  THEN flags2 \ {"WHITE_KING_SIDE_CASTLE", "WHITE_QUEEN_SIDE_CASTLE"}
                  ELSE flags2 \ {"BLACK_KING_SIDE_CASTLE", "BLACK_QUEEN_SIDE_CASTLE"}
    IN [bitboards |-> bitboards3,
        white |-> white3,
        occupied |-> occupied3,
        \* flags.toggle(WHITE_TO_MOVE)
        flags |-> Xor(flags3, {"WHITE_TO_MOVE"}),
        en_passant_square |-> en_passant_square]

\* ------------------------------------------------------------------------
\* Reference rules of chess, square by square: the oracle of the study
\* tests (core/tests/test_study.rs), which applies each candidate move and
\* tests whether the mover's king is attacked
\* ------------------------------------------------------------------------

RefFile(s) == s % 8
RefRank(s) == s \div 8
RefAbs(x) == IF x < 0 THEN 0 - x ELSE x

\* The square-centric view of a board: <<colour, piece type>> per occupied
\* square, <<>> on an empty square
RefView(board) ==
    [s \in Squares |->
        IF s \in board.occupied
        THEN <<IF s \in board.white THEN White ELSE Black,
               CHOOSE p \in PieceSet : s \in board.bitboards[p]>>
        ELSE <<>>]

\* Every square strictly between s and t, on a common line, is empty
RefPathClear(view, s, t) ==
    LET df == RefFile(t) - RefFile(s)
        dr == RefRank(t) - RefRank(s)
        n == IF RefAbs(df) > RefAbs(dr) THEN RefAbs(df) ELSE RefAbs(dr)
    IN \A k \in 1..(n - 1) : view[s + k * (signum(df) + 8 * signum(dr))] = <<>>

\* The piece on s (of the given colour and type) attacks the square t
RefPieceAttacks(view, s, color, piece, t) ==
    LET df == RefFile(t) - RefFile(s)
        dr == RefRank(t) - RefRank(s)
        straight == (df = 0) # (dr = 0)
        diagonal == RefAbs(df) = RefAbs(dr) /\ df # 0
    IN CASE piece = "Pawn" -> RefAbs(df) = 1 /\ dr = (IF color = White THEN 1 ELSE -1)
         [] piece = "Knight" -> {RefAbs(df), RefAbs(dr)} = {1, 2}
         [] piece = "King" -> s # t /\ RefAbs(df) <= 1 /\ RefAbs(dr) <= 1
         [] piece = "Rook" -> straight /\ RefPathClear(view, s, t)
         [] piece = "Bishop" -> diagonal /\ RefPathClear(view, s, t)
         [] piece = "Queen" -> (straight \/ diagonal) /\ RefPathClear(view, s, t)

\* Some piece of the colour attacks the square t
RefAttacked(view, t, color) ==
    \E s \in Squares :
        /\ view[s] # <<>>
        /\ view[s][1] = color
        /\ RefPieceAttacks(view, s, color, view[s][2], t)

\* The king of the colour is attacked
RefInCheck(view, color) ==
    \E k \in Squares : view[k] = <<color, "King">> /\ RefAttacked(view, k, opposite(color))

\* The position after a move, square by square
RefApply(view, m, color) ==
    LET placed == IF m.promotion # NoPiece THEN m.promotion ELSE m.piece
        captured == IF "EN_PASSANT" \in m.flags
                    THEN (IF color = White THEN m.to - 8 ELSE m.to + 8)
                    ELSE NoSquare
        rook_from == IF "CASTLE" \in m.flags
                     THEN (IF m.to > m.from THEN m.from + 3 ELSE m.from - 4)
                     ELSE NoSquare
        rook_to == IF "CASTLE" \in m.flags
                   THEN (IF m.to > m.from THEN m.from + 1 ELSE m.from - 1)
                   ELSE NoSquare
    IN [s \in Squares |->
           IF s = m.to THEN <<color, placed>>
           ELSE IF s = rook_to THEN <<color, "Rook">>
           ELSE IF s \in {m.from, captured, rook_from} THEN <<>>
           ELSE view[s]]

\* The pseudo-legal moves of the pawn on from
RefPawnMoves(board, view, from) ==
    LET color == next_to_move(board)
        up == IF color = White THEN 8 ELSE -8
        home == IF color = White THEN 1 ELSE 6
        last == IF color = White THEN 7 ELSE 0
        Fan(to) == IF RefRank(to) = last
                   THEN {Move(from, to, "Pawn", p, {}) : p \in {"Queen", "Rook", "Bishop", "Knight"}}
                   ELSE {Move(from, to, "Pawn", NoPiece, {})}
        one == from + up
        two == from + 2 * up
        targets == {t \in Squares : RefPieceAttacks(view, from, color, "Pawn", t)}
    IN (IF one \in Squares /\ view[one] = <<>> THEN Fan(one) ELSE {})
       \cup (IF RefRank(from) = home /\ view[one] = <<>> /\ view[two] = <<>>
             THEN {Move(from, two, "Pawn", NoPiece, {})} ELSE {})
       \cup UNION {Fan(t) : t \in {x \in targets : view[x] # <<>> /\ view[x][1] # color}}
       \cup {Move(from, t, "Pawn", NoPiece, {"EN_PASSANT"}) :
                t \in {x \in targets : x = board.en_passant_square}}

\* The castling moves of the king on from: the right is set, the squares
\* between king and rook are empty, and the king stands on, crosses and
\* reaches squares that are not attacked
RefCastlingMoves(board, view, from) ==
    LET color == next_to_move(board)
        enemy == opposite(color)
        home == IF color = White THEN 4 ELSE 60
        king_side == IF color = White THEN "WHITE_KING_SIDE_CASTLE" ELSE "BLACK_KING_SIDE_CASTLE"
        queen_side == IF color = White THEN "WHITE_QUEEN_SIDE_CASTLE" ELSE "BLACK_QUEEN_SIDE_CASTLE"
        Free(ss) == \A s \in ss : view[s] = <<>>
        Safe(ss) == \A s \in ss : ~RefAttacked(view, s, enemy)
    IN IF from # home THEN {}
       ELSE (IF king_side \in board.flags /\ view[home + 3] = <<color, "Rook">>
                /\ Free({home + 1, home + 2}) /\ Safe({home, home + 1, home + 2})
             THEN {Move(home, home + 2, "King", NoPiece, {"CASTLE"})} ELSE {})
            \cup
            (IF queen_side \in board.flags /\ view[home - 4] = <<color, "Rook">>
                /\ Free({home - 1, home - 2, home - 3}) /\ Safe({home, home - 1, home - 2})
             THEN {Move(home, home - 2, "King", NoPiece, {"CASTLE"})} ELSE {})

\* The pseudo-legal moves of the side to move
RefPseudoLegalMoves(board) ==
    LET view == RefView(board)
        color == next_to_move(board)
        own == {s \in Squares : view[s] # <<>> /\ view[s][1] = color}
        From(from) ==
            LET piece == view[from][2]
            IN IF piece = "Pawn" THEN RefPawnMoves(board, view, from)
               ELSE {Move(from, t, piece, NoPiece, {}) :
                        t \in {x \in Squares \ own :
                                  RefPieceAttacks(view, from, color, piece, x)}}
                    \cup (IF piece = "King" THEN RefCastlingMoves(board, view, from) ELSE {})
    IN UNION {From(from) : from \in own}

\* The legal moves: the pseudo-legal moves after which the mover's king is
\* not attacked
RefLegalMoves(board) ==
    LET view == RefView(board)
        color == next_to_move(board)
    IN {m \in RefPseudoLegalMoves(board) : ~RefInCheck(RefApply(view, m, color), color)}

\* The board invariants: Board::verify, one king of each colour, no pawn on
\* the first or the last rank
BoardInvariants(board) ==
    /\ verify(board)
    /\ Cardinality(get(board, "King") \cap board.white) = 1
    /\ Cardinality(get(board, "King") \ board.white) = 1
    /\ get(board, "Pawn") \cap (RANK_1 \cup RANK_8) = {}

\* A valid board: the board invariants hold, the side that is not to move
\* is not in check, a set en passant square lies behind a pawn of the side
\* that just moved, and a set castling right has its king and rook at home
ValidBoard(board) ==
    /\ BoardInvariants(board)
    /\ ~RefInCheck(RefView(board), opposite(next_to_move(board)))
    /\ board.en_passant_square \in 0..64
    /\ board.en_passant_square < 64 =>
          LET view == RefView(board)
              white_to_move == next_to_move(board) = White
              ep == board.en_passant_square
          IN /\ RefRank(ep) = (IF white_to_move THEN 5 ELSE 2)
             /\ view[ep] = <<>>
             /\ view[IF white_to_move THEN ep + 8 ELSE ep - 8] = <<>>
             /\ view[IF white_to_move THEN ep - 8 ELSE ep + 8]
                   = <<opposite(next_to_move(board)), "Pawn">>
    /\ \A right \in board.flags \ {"WHITE_TO_MOVE"} :
          LET view == RefView(board)
          IN CASE right = "WHITE_KING_SIDE_CASTLE" ->
                    view[4] = <<White, "King">> /\ view[7] = <<White, "Rook">>
               [] right = "WHITE_QUEEN_SIDE_CASTLE" ->
                    view[4] = <<White, "King">> /\ view[0] = <<White, "Rook">>
               [] right = "BLACK_KING_SIDE_CASTLE" ->
                    view[60] = <<Black, "King">> /\ view[63] = <<Black, "Rook">>
               [] right = "BLACK_QUEEN_SIDE_CASTLE" ->
                    view[60] = <<Black, "King">> /\ view[56] = <<Black, "Rook">>

\* ------------------------------------------------------------------------
\* Static evaluation (core/src/eval.rs) and the arena tree (core/src/tree.rs)
\* ------------------------------------------------------------------------

PieceValue(piece) ==
    CASE piece = "Queen" -> 9
      [] piece = "Rook" -> 5
      [] piece = "Bishop" -> 3
      [] piece = "Knight" -> 3
      [] piece = "Pawn" -> 1
      [] OTHER -> 0

\* Material count: value * (white count - black count), over the piece types
simple_evaluation(board) ==
    LET Term(piece) ==
            LET count_total == Cardinality(get(board, piece))
                count_white == Cardinality(get(board, piece) \cap board.white)
                count_black == count_total - count_white
            IN PieceValue(piece) * (count_white - count_black)
    IN Term("Pawn") + Term("Knight") + Term("Bishop") + Term("Rook") + Term("Queen")
       + Term("King")

\* The build without the feature eval_larry_kaufman
evaluate(board) == simple_evaluation(board)

\* Option<T>: None is the empty sequence, Some(x) is <<x>>
None == <<>>
Some(x) == <<x>>

\* TreeNodeRef::ROOT. A node reference r names container[r], here the
\* element r + 1 of the sequence; a link of 0 is the None of
\* Option<NonZeroU32>.
ROOT == 0

TreeEntry(move, depth, score, board, flags) ==
    [move |-> move, depth |-> depth, score |-> score, board |-> board, flags |-> flags,
     next_siblings |-> 0, first_child |-> 0, parent |-> 0]

\* Tree::new
TreeNew(root_value) == <<root_value>>

Node(tree, noderef) == tree[noderef + 1]

\* Tree::node_count: the length of the container
node_count(tree) == Len(tree)

\* A push_child that links the new node to no sibling: the children pushed
\* before it leave the child list of the parent
push_child_without_siblings(tree, noderef, value) ==
    LET new_node_index == Len(tree)
        pushed == Append(tree, [value EXCEPT !.next_siblings = 0,
                                             !.first_child = 0,
                                             !.parent = noderef])
    IN [pushed EXCEPT ![noderef + 1].first_child = new_node_index]

\* TreeRefMut::push_child: the new node goes to the end of the container
\* and to the front of the parent's child list
push_child(tree, noderef, value) ==
    LET new_node_index == Len(tree)
        current_first_child == Node(tree, noderef).first_child
        pushed == Append(tree, [value EXCEPT !.next_siblings = current_first_child,
                                             !.first_child = 0,
                                             !.parent = noderef])
    IN [pushed EXCEPT ![noderef + 1].first_child = new_node_index]

ANY_TERMINAL == {"CHECKMATE_WHITE_WIN", "CHECKMATE_BLACK_WIN", "STALEMATE"}

is_terminal(entry) == entry.flags \cap ANY_TERMINAL # {}

should_evaluate(entry, epoch) == ~is_terminal(entry) /\ entry.depth < epoch

\* ------------------------------------------------------------------------
\* SimpleAiCtx::derive_results (core/src/ai/simple.rs)
\* ------------------------------------------------------------------------

\* The inner loop: walk the siblings, keep the first one no later sibling
\* beats under minmax_cmp
RECURSIVE BestSibling(_, _, _, _)
BestSibling(tree, current_color, child, best_child) ==
    Only({IF sibling = 0 THEN best_child
          ELSE Only({BestSibling(tree, current_color, sibling, best) :
                         best \in {IF minmax_cmp(current_color, Node(tree, sibling).score,
                                                 Node(tree, best_child).score)
                                   THEN sibling ELSE best_child}}) :
          sibling \in {Node(tree, child).next_siblings}})

\* The outer loop: the principal variation below a node
RECURSIVE PrincipalVariation(_, _)
PrincipalVariation(tree, current) ==
    Only({IF child = 0 THEN <<>>
          ELSE Only({IF Node(tree, best_child).move # None
                     THEN Node(tree, best_child).move \o PrincipalVariation(tree, best_child)
                     ELSE <<>> :
                     best_child \in {BestSibling(tree, next_to_move(Node(tree, current).board),
                                                 child, child)}}) :
          child \in {Node(tree, current).first_child}})

derive_results(tree) ==
    Only({IF pv = <<>> THEN None
          ELSE Some([best_move |-> pv[1],
                     depth |-> Len(pv),
                     pv |-> pv,
                     nodes |-> node_count(tree),
                     score |-> Node(tree, ROOT).score]) :
          pv \in {PrincipalVariation(tree, ROOT)}})

\* Display of a colourless piece: the upper-case letter
PieceSymbol(piece) ==
    CASE piece = "Queen" -> "Q"
      [] piece = "Rook" -> "R"
      [] piece = "Bishop" -> "B"
      [] piece = "Knight" -> "N"
      [] piece = "Pawn" -> "P"
      [] piece = "King" -> "K"

\* Display for Move, as the sequence of the characters written
to_string(m) ==
    <<PieceSymbol(m.piece)>> \o square_to_algebraic(m.from) \o square_to_algebraic(m.to)
    \o (IF m.promotion # NoPiece THEN <<"=", PieceSymbol(m.promotion)>> ELSE <<>>)

\* The line println!("info depth {} score {} nodes {} time {} pv {}", ...)
InfoLine(epoch, tree, elapsed, result) ==
    [kind |-> "info",
     depth |-> epoch,
     score |-> Node(tree, ROOT).score,
     nodes |-> node_count(tree),
     time |-> elapsed,
     pv |-> [i \in 1..Len(result.pv) |-> to_string(result.pv[i])]]

\* The bestmove line printed after the loop
BestMoveLine(tree) ==
    Only({IF result # None
          THEN (IF Len(result[1].pv) < 2
                THEN [kind |-> "bestmove", best |-> uci(result[1].best_move), ponder |-> None]
                ELSE [kind |-> "bestmove", best |-> uci(result[1].best_move),
                      ponder |-> Some(uci(result[1].pv[2]))])
          ELSE [kind |-> "bestmove", best |-> <<"(", "n", "o", "n", "e", ")">>,
                ponder |-> None] :
          result \in {derive_results(tree)}})

\* ------------------------------------------------------------------------
\* Positions, as Board::from_fen builds them (core/src/board.rs)
\* ------------------------------------------------------------------------

\* 8/8/8/K2pP2r/8/8/8/7k w - d6 0 1
EnPassantPinBoard ==
    BoardFromSquares(
        7 :> <<Black, "King">> @@ 32 :> <<White, "King">> @@ 35 :> <<Black, "Pawn">> @@
        36 :> <<White, "Pawn">> @@ 39 :> <<Black, "Rook">>,
        {"WHITE_TO_MOVE"}, 43)

\* 8/8/8/3pP3/4K3/8/8/7k w - d6 0 1
EnPassantCheckBoard ==
    BoardFromSquares(
        7 :> <<Black, "King">> @@ 28 :> <<White, "King">> @@ 35 :> <<Black, "Pawn">> @@
        36 :> <<White, "Pawn">>,
        {"WHITE_TO_MOVE"}, 43)

\* 6k1/5ppp/8/8/8/8/5PPP/R5K1 w - - 0 1
MateInOneBoard ==
    BoardFromSquares(
        0 :> <<White, "Rook">> @@ 6 :> <<White, "King">> @@ 13 :> <<White, "Pawn">> @@
        14 :> <<White, "Pawn">> @@ 15 :> <<White, "Pawn">> @@
        53 :> <<Black, "Pawn">> @@ 54 :> <<Black, "Pawn">> @@
        55 :> <<Black, "Pawn">> @@ 62 :> <<Black, "King">>,
        {"WHITE_TO_MOVE"}, 64)

\* 7k/8/8/8/8/8/8/K4Q2 w - - 0 1
QueenBoard ==
    BoardFromSquares(
        0 :> <<White, "King">> @@ 5 :> <<White, "Queen">> @@ 63 :> <<Black, "King">>,
        {"WHITE_TO_MOVE"}, 64)

\* 4k2r/8/8/8/8/8/8/R3K3 w Qk - 0 1
CastlingBoard ==
    BoardFromSquares(
        0 :> <<White, "Rook">> @@ 4 :> <<White, "King">> @@ 60 :> <<Black, "King">> @@
        63 :> <<Black, "Rook">>,
        {"WHITE_TO_MOVE", "WHITE_QUEEN_SIDE_CASTLE", "BLACK_KING_SIDE_CASTLE"}, 64)

\* r3k2r/8/8/8/8/8/8/R3K2R w KQkq - 0 1
FullCastlingBoard ==
    BoardFromSquares(
        0 :> <<White, "Rook">> @@ 4 :> <<White, "King">> @@ 7 :> <<White, "Rook">> @@
        56 :> <<Black, "Rook">> @@ 60 :> <<Black, "King">> @@ 63 :> <<Black, "Rook">>,
        {"WHITE_TO_MOVE", "WHITE_KING_SIDE_CASTLE", "WHITE_QUEEN_SIDE_CASTLE",
         "BLACK_KING_SIDE_CASTLE", "BLACK_QUEEN_SIDE_CASTLE"}, 64)

\* 4k3/8/8/8/8/8/8/RN2K1NR w KQ - 0 1
BlockedCastlingBoard ==
    BoardFromSquares(
        0 :> <<White, "Rook">> @@ 1 :> <<White, "Knight">> @@ 4 :> <<White, "King">> @@
        6 :> <<White, "Knight">> @@ 7 :> <<White, "Rook">> @@ 60 :> <<Black, "King">>,
        {"WHITE_TO_MOVE", "WHITE_KING_SIDE_CASTLE", "WHITE_QUEEN_SIDE_CASTLE"}, 64)

\* 4r2k/8/8/b6N/8/4R1q1/3N1P2/r1B1K3 w - - 0 1
PinBoard ==
    BoardFromSquares(
        0 :> <<Black, "Rook">> @@ 2 :> <<White, "Bishop">> @@ 4 :> <<White, "King">> @@
        11 :> <<White, "Knight">> @@ 13 :> <<White, "Pawn">> @@ 20 :> <<White, "Rook">> @@
        22 :> <<Black, "Queen">> @@ 32 :> <<Black, "Bishop">> @@ 39 :> <<White, "Knight">> @@
        60 :> <<Black, "Rook">> @@ 63 :> <<Black, "King">>,
        {"WHITE_TO_MOVE"}, 64)

\* 4k3/p7/8/1P6/7P/8/8/4K3 b - - 0 1
EdgeDoublePushBoard ==
    BoardFromSquares(
        4 :> <<White, "King">> @@ 31 :> <<White, "Pawn">> @@ 33 :> <<White, "Pawn">> @@
        48 :> <<Black, "Pawn">> @@ 60 :> <<Black, "King">>,
        {}, 64)

\* 7k/5K2/8/8/8/8/8/6R1 w - - 0 1
RookMateWhiteBoard ==
    BoardFromSquares(
        6 :> <<White, "Rook">> @@ 53 :> <<White, "King">> @@ 63 :> <<Black, "King">>,
        {"WHITE_TO_MOVE"}, 64)

\* 6r1/8/8/8/8/8/5k2/7K b - - 0 1
RookMateBlackBoard ==
    BoardFromSquares(
        7 :> <<White, "King">> @@ 13 :> <<Black, "King">> @@ 62 :> <<Black, "Rook">>,
        {}, 64)

\* 8/P7/8/8/8/8/8/k6K w - - 0 1
PromotionBoard ==
    BoardFromSquares(
        0 :> <<Black, "King">> @@ 7 :> <<White, "King">> @@ 48 :> <<White, "Pawn">>,
        {"WHITE_TO_MOVE"}, 64)

\* 4k3/8/8/8/3p4/8/4P3/4K3 w - - 0 1
DoublePushBoard ==
    BoardFromSquares(
        4 :> <<White, "King">> @@ 12 :> <<White, "Pawn">> @@ 27 :> <<Black, "Pawn">> @@
        60 :> <<Black, "King">>,
        {"WHITE_TO_MOVE"}, 64)

\* 8/1pp5/2p5/K2pP2r/PP5k/8/8/8 w - d6 0 1
EnPassantSearchBoard ==
    BoardFromSquares(
        24 :> <<White, "Pawn">> @@ 25 :> <<White, "Pawn">> @@ 31 :> <<Black, "King">> @@
        32 :> <<White, "King">> @@ 35 :> <<Black, "Pawn">> @@ 36 :> <<White, "Pawn">> @@
        39 :> <<Black, "Rook">> @@ 42 :> <<Black, "Pawn">> @@ 49 :> <<Black, "Pawn">> @@
        50 :> <<Black, "Pawn">>,
        {"WHITE_TO_MOVE"}, 43)

\* 8/8/8/8/8/p7/P1k5/K7 w - - 0 1
StalemateBoard ==
    BoardFromSquares(
        0 :> <<White, "King">> @@ 8 :> <<White, "Pawn">> @@ 10 :> <<Black, "King">> @@
        16 :> <<Black, "Pawn">>,
        {"WHITE_TO_MOVE"}, 64)

\* 8/8/8/8/7p/p7/P1k4P/K7 w - - 0 1
OneMoveBoard ==
    BoardFromSquares(
        0 :> <<White, "King">> @@ 8 :> <<White, "Pawn">> @@ 10 :> <<Black, "King">> @@
        15 :> <<White, "Pawn">> @@ 16 :> <<Black, "Pawn">> @@ 31 :> <<Black, "Pawn">>,
        {"WHITE_TO_MOVE"}, 64)

\* ------------------------------------------------------------------------
\* Magic bitboards (core/src/magic.rs)
\* ------------------------------------------------------------------------

\* Bitboard::bishop_raycast and Bitboard::rook_raycast
BitboardBishopRaycast(self, occ) ==
    Only({sliding_attack(s, o, "NorthEast") \cup sliding_attack(s, o, "NorthWest")
          \cup sliding_attack(s, o, "SouthEast") \cup sliding_attack(s, o, "SouthWest") :
             s \in {self}, o \in {occ}})

BitboardRookRaycast(self, occ) ==
    Only({sliding_attack(s, o, "North") \cup sliding_attack(s, o, "East")
          \cup sliding_attack(s, o, "South") \cup sliding_attack(s, o, "West") :
             s \in {self}, o \in {occ}})

bishop_legacy_raycast(square, occ) == BitboardBishopRaycast({square}, occ)

rook_legacy_raycast(square, occ) == BitboardRookRaycast({square}, occ)

\* A u64 that is multiplied is kept as its eight bytes, the least
\* significant first; BytesOf gives the bytes of a set of bit indices
ByteOf(S, k) ==
    (IF 8 * k \in S THEN 1 ELSE 0) + (IF 8 * k + 1 \in S THEN 2 ELSE 0)
    + (IF 8 * k + 2 \in S THEN 4 ELSE 0) + (IF 8 * k + 3 \in S THEN 8 ELSE 0)
    + (IF 8 * k + 4 \in S THEN 16 ELSE 0) + (IF 8 * k + 5 \in S THEN 32 ELSE 0)
    + (IF 8 * k + 6 \in S THEN 64 ELSE 0) + (IF 8 * k + 7 \in S THEN 128 ELSE 0)

BytesOf(S) == [k \in 1..8 |-> ByteOf(S, k - 1)]

\* The sum of the byte products that fall in byte k of a product
RECURSIVE ColumnSum(_, _, _, _)
ColumnSum(x, y, k, i) ==
    IF i > k THEN 0 ELSE x[i + 1] * y[k - i + 1] + ColumnSum(x, y, k, i + 1)

RECURSIVE MulFrom(_, _, _, _)
MulFrom(x, y, k, carry) ==
    IF k = 8 THEN <<>>
    ELSE Only({<<t % 256>> \o MulFrom(x, y, k + 1, t \div 256) :
                  t \in {ColumnSum(x, y, k, 0) + carry}})

\* u64::wrapping_mul: the low eight bytes of the product
wrapping_mul(x, y) == MulFrom(x, y, 0, 0)

\* x >> (64 - bits) for bits <= 16: what is left is the top bits of the two
\* most significant bytes
ShrTo(x, bits) == (x[8] * 256 + x[7]) \div (2 ^ (16 - bits))

\* Magic::transform
transform(b, magic, bits) == ShrTo(wrapping_mul(BytesOf(b), magic), bits)

\* mask - 1 of a non-zero mask: the lowest set bit is cleared and the bits
\* below it are set
MinusOne(mask) ==
    Only({(mask \ {low}) \cup {s \in Squares : s < low} :
             low \in {CHOOSE s \in mask : \A t \in mask : s <= t}})

\* Magic::index_to_bitboard: the loop over i in 0..bits
RECURSIVE IndexToBitboardLoop(_, _, _, _, _)
IndexToBitboardLoop(i, index, bits, mask, result) ==
    IF i = bits THEN result
    ELSE LET b == Xor(mask, MinusOne(mask))
             j == ilog2(b)
         IN IndexToBitboardLoop(i + 1, index, bits, mask \cap MinusOne(mask),
                IF (index \div (2 ^ i)) % 2 # 0 THEN result \cup {j} ELSE result)

index_to_bitboard(index, bits, mask) == IndexToBitboardLoop(0, index, bits, mask, {})

\* The mask of find_magic: the relevant occupancy bits of the square
MagicMask(square, is_bishop) ==
    IF is_bishop
    THEN bishop_legacy_raycast(square, {})
           \cap Not(RANK_1 \cup RANK_8 \cup FILE_A \cup FILE_H)
    ELSE rook_legacy_raycast(square, {})
           \cap (IF square \in RANK_1 THEN Squares ELSE Not(RANK_1))
           \cap (IF square \in RANK_8 THEN Squares ELSE Not(RANK_8))
           \cap (IF square \in FILE_A THEN Squares ELSE Not(FILE_A))
           \cap (IF square \in FILE_H THEN Squares ELSE Not(FILE_H))

\* The arrays b and a of find_magic: the blocker subsets of the mask and,
\* for each, the attack set of the reference ray cast
BlockerSubsets(n, mask) == [i \in 0..(2 ^ n - 1) |-> index_to_bitboard(i, n, mask)]

ReferenceAttacks(square, is_bishop, b) ==
    [i \in DOMAIN b |-> IF is_bishop THEN bishop_legacy_raycast(square, b[i])
                        ELSE rook_legacy_raycast(square, b[i])]

\* A trial loop without the collision test: a slot keeps the attack set of
\* the first subset that reaches it, whatever the later ones bring
RECURSIVE trial_loop_keeping_first(_, _, _, _, _, _, _)
trial_loop_keeping_first(lo, hi, used, b, a, magic, m) ==
    IF hi - lo = 1
    THEN Only({ IF used[j] = {} THEN [used EXCEPT ![j] = a[lo]] ELSE used :
                   j \in {transform(b[lo], magic, m)} })
    ELSE Only({ trial_loop_keeping_first((lo + hi) \div 2, hi, first, b, a, magic, m) :
                   first \in {trial_loop_keeping_first(lo, (lo + hi) \div 2, used,
                                                       b, a, magic, m)} })

\* The loop of one trial over i in lo..(hi - 1), cut in halves: used is the
\* array filled so far, or None once two subsets with different attack sets
\* have met in a slot
RECURSIVE TrialLoop(_, _, _, _, _, _, _)
TrialLoop(lo, hi, used, b, a, magic, m) ==
    IF used = None THEN None
    ELSE IF hi - lo = 1
    THEN Only({ IF used[j] = {} THEN [used EXCEPT ![j] = a[lo]]
                ELSE IF used[j] # a[lo] THEN None
                ELSE used : j \in {transform(b[lo], magic, m)} })
    ELSE Only({ TrialLoop((lo + hi) \div 2, hi, first, b, a, magic, m) :
                   first \in {TrialLoop(lo, (lo + hi) \div 2, used, b, a, magic, m)} })

\* used[..=max_used]: the array up to its last non-empty slot
UsedSlots(used) ==
    Only({ [j \in 0..max_used |-> used[j]] :
              max_used \in {CHOOSE j \in DOMAIN used :
                                /\ used[j] # {}
                                /\ \A k \in DOMAIN used : k > j => used[k] = {}} })

\* One trial of find_magic on the candidate magic: None when the candidate
\* is passed over or two subsets collide, else the slots to append
Trial(square, m, is_bishop, magic, mask, b, a) ==
    \* (mask * magic) & 0xFF00000000000000 is a multiple of 2^56: it is
    \* below 6 only when the top byte is 0
    IF wrapping_mul(BytesOf(mask), magic)[8] = 0 THEN None
    ELSE Only({ IF used = None THEN None ELSE Some(UsedSlots(used)) :
                   used \in {Only({TrialLoop(0, 2 ^ Cardinality(mask), empty, b, a, magic, m) :
                                       empty \in {[j \in 0..4095 |-> {}]}})} })

\* ROOK_BITS and BISHOP_BITS of Magic::generate
ROOK_BITS ==
    <<12, 11, 11, 11, 11, 11, 11, 12, 11, 10, 10, 10, 10, 10, 10, 11,
      11, 10, 10, 10, 10, 10, 10, 11, 11, 10, 10, 10, 10, 10, 10, 11,
      11, 10, 10, 10, 10, 10, 10, 11, 11, 10, 10, 10, 10, 10, 10, 11,
      11, 10, 10, 10, 10, 10, 10, 11, 12, 11, 11, 11, 11, 11, 11, 12>>

BISHOP_BITS ==
    <<6, 5, 5, 5, 5, 5, 5, 6, 5, 5, 5, 5, 5, 5, 5, 5,
      5, 5, 7, 7, 7, 7, 5, 5, 5, 5, 7, 9, 9, 7, 5, 5,
      5, 5, 7, 9, 9, 7, 5, 5, 5, 5, 7, 7, 7, 7, 5, 5,
      5, 5, 5, 5, 5, 5, 5, 5, 6, 5, 5, 5, 5, 5, 5, 6>>

\* SMagic, and the SMagic the arrays of generate are filled with
SMagic(mask, magic, offset, bits) ==
    [mask |-> mask, magic |-> magic, offset |-> offset, bits |-> bits]

SMagicZero == SMagic({}, <<0, 0, 0, 0, 0, 0, 0, 0>>, 0, 0)

\* The squares of the two loops of generate that the model runs, in the
\* order of the loops, and the occupancies it looks up
MagicBishopSquares == <<0, 9>>

MagicRookSquares == <<9>>

GenerateCalls ==
    [k \in 1..(Len(MagicBishopSquares) + Len(MagicRookSquares)) |->
        IF k <= Len(MagicBishopSquares)
        THEN [square |-> MagicBishopSquares[k], is_bishop |-> TRUE]
        ELSE [square |-> MagicRookSquares[k - Len(MagicBishopSquares)], is_bishop |-> FALSE]]

Occupancies == SUBSET {9, 10, 17, 18, 27, 63}

\* The values the random generator draws in the trials: magic numbers for
\* the bishop on a1 (0x9814050401240102, 0x1848841112043510), for the bishop
\* on b2 (0x40434040120, 0x98054409024118) and for the rook on b2
\* (0x2804000802000), and 0 and 0xff00000000000001
MagicCandidates ==
    {<<2, 1, 36, 1, 4, 5, 20, 152>>, <<16, 53, 4, 18, 17, 132, 72, 24>>,
     <<32, 1, 4, 52, 4, 4, 0, 0>>, <<24, 65, 2, 9, 68, 5, 152, 0>>,
     <<0, 32, 128, 0, 64, 128, 2, 0>>,
     <<0, 0, 0, 0, 0, 0, 0, 0>>, <<1, 0, 0, 0, 0, 0, 0, 255>>}

\* ------------------------------------------------------------------------
\* FEN (core/src/board.rs). A string is the sequence of its characters.
\* ------------------------------------------------------------------------

DigitChars == <<"0", "1", "2", "3", "4", "5", "6", "7", "8", "9">>

LowerCaseChars ==
    <<"a", "b", "c", "d", "e", "f", "g", "h", "i", "j", "k", "l", "m",
      "n", "o", "p", "q", "r", "s", "t", "u", "v", "w", "x", "y", "z">>

\* The place of a character in a sequence of characters, counted from 0
IndexOfChar(chars, c) == (CHOOSE i \in 1..Len(chars) : chars[i] = c) - 1

IsChar(chars, c) == \E i \in 1..Len(chars) : chars[i] = c

\* Piece::symbol
symbol(piece) ==
    IF piece[1] = White
    THEN CASE piece[2] = "Pawn" -> "P" [] piece[2] = "Knight" -> "N"
           [] piece[2] = "Bishop" -> "B" [] piece[2] = "Rook" -> "R"
           [] piece[2] = "Queen" -> "Q" [] piece[2] = "King" -> "K"
    ELSE PromotionSymbol(piece[2])

Pieces == {White, Black} \X PieceSet

\* SquareCentricBoard::empty
SquareCentricEmpty == [squares |-> <<>>, flags |-> {}, en_passant_square |-> 8]

\* The body of the loop of parse_fen for the character c: st holds the
\* board built so far, rank, file and meta_index, and err once the function
\* has returned Err
ParseFenChar(st, c) ==
    IF st.meta_index >= 1
    THEN IF c = " " THEN [st EXCEPT !.meta_index = @ + 1]
         ELSE IF st.meta_index = 1
         THEN IF c = "w" THEN [st EXCEPT !.board.flags = @ \cup {"WHITE_TO_MOVE"}]
              ELSE IF c = "b" THEN [st EXCEPT !.board.flags = @ \ {"WHITE_TO_MOVE"}]
              ELSE [st EXCEPT !.err = TRUE]
         ELSE IF st.meta_index = 2
         THEN IF c = "K" THEN [st EXCEPT !.board.flags = @ \cup {"WHITE_KING_SIDE_CASTLE"}]
              ELSE IF c = "Q" THEN [st EXCEPT !.board.flags = @ \cup {"WHITE_QUEEN_SIDE_CASTLE"}]
              ELSE IF c = "k" THEN [st EXCEPT !.board.flags = @ \cup {"BLACK_KING_SIDE_CASTLE"}]
              ELSE IF c = "q" THEN [st EXCEPT !.board.flags = @ \cup {"BLACK_QUEEN_SIDE_CASTLE"}]
              ELSE IF c = "-" THEN st
              ELSE [st EXCEPT !.err = TRUE]
         ELSE IF st.meta_index = 3
         THEN IF c = "-" THEN [st EXCEPT !.board.en_passant_square = 64]
              ELSE IF IsChar(LowerCaseChars, c)
              THEN [st EXCEPT !.board.en_passant_square =
                       (IndexOfChar(LowerCaseChars, c) % 8)
                       + (IF "WHITE_TO_MOVE" \in st.board.flags THEN 40 ELSE 16)]
              ELSE IF IsChar(DigitChars, c) THEN st
              ELSE [st EXCEPT !.err = TRUE]
         ELSE st
    ELSE IF c = "/"
         THEN IF st.file # 8 \/ st.rank = 0 THEN [st EXCEPT !.err = TRUE]
              ELSE [st EXCEPT !.rank = @ - 1, !.file = 0]
    ELSE IF c = " "
         THEN IF st.file # 8 \/ st.rank # 0 THEN [st EXCEPT !.err = TRUE]
              ELSE [st EXCEPT !.meta_index = 1]
    ELSE IF IsChar(DigitChars, c)
         THEN [st EXCEPT !.file = @ + IndexOfChar(DigitChars, c)]
    ELSE IF st.file >= 8 \/ ~(\E piece \in Pieces : symbol(piece) = c)
         THEN [st EXCEPT !.err = TRUE]
    ELSE [st EXCEPT !.board.squares =
                       @ @@ ((st.rank * 8 + st.file) :> (CHOOSE piece \in Pieces : symbol(piece) = c)),
                    !.file = @ + 1]

RECURSIVE ParseFenLoop(_, _, _)
ParseFenLoop(st, fen_string, i) ==
    IF i > Len(fen_string) \/ st.err THEN st
    ELSE Only({ParseFenLoop(next, fen_string, i + 1) :
                  next \in {ParseFenChar(st, fen_string[i])}})

\* SquareCentricBoard::parse_fen: Some(board) for Ok, None for Err
parse_fen(fen_string) ==
    Only({IF st.err THEN None ELSE Some(st.board) :
             st \in {ParseFenLoop([board |-> SquareCentricEmpty, rank |-> 7, file |-> 0,
                                   meta_index |-> 0, err |-> FALSE], fen_string, 1)}})

\* One rank of the placement written by fen: file by file, the count of
\* empty squares before each piece and at the end of the rank
RECURSIVE FenRank(_, _, _, _)
FenRank(squares, rank, file, empty_count) ==
    IF file = 8 THEN (IF empty_count > 0 THEN <<DigitChars[empty_count + 1]>> ELSE <<>>)
    ELSE IF (rank * 8 + file) \in DOMAIN squares
    THEN (IF empty_count > 0 THEN <<DigitChars[empty_count + 1]>> ELSE <<>>)
         \o <<symbol(squares[rank * 8 + file])>> \o FenRank(squares, rank, file + 1, 0)
    ELSE FenRank(squares, rank, file + 1, empty_count + 1)

RECURSIVE FenRanks(_, _)
FenRanks(squares, rank) ==
    FenRank(squares, rank, 0, 0)
    \o (IF rank > 0 THEN <<"/">> \o FenRanks(squares, rank - 1) ELSE <<>>)

\* SquareCentricBoard::fen: placement, active colour, castling rights and
\* en passant square
fen(self) ==
    FenRanks(self.squares, 7)
    \o (IF "WHITE_TO_MOVE" \in self.flags THEN <<" ", "w", " ">> ELSE <<" ", "b", " ">>)
    \o (IF "WHITE_KING_SIDE_CASTLE" \in self.flags THEN <<"K">> ELSE <<>>)
    \o (IF "WHITE_QUEEN_SIDE_CASTLE" \in self.flags THEN <<"Q">> ELSE <<>>)
    \o (IF "BLACK_KING_SIDE_CASTLE" \in self.flags THEN <<"k">> ELSE <<>>)
    \o (IF "BLACK_QUEEN_SIDE_CASTLE" \in self.flags THEN <<"q">> ELSE <<>>)
    \o (IF self.flags \cap {"WHITE_KING_SIDE_CASTLE", "WHITE_QUEEN_SIDE_CASTLE",
                            "BLACK_KING_SIDE_CASTLE", "BLACK_QUEEN_SIDE_CASTLE"} = {}
        THEN <<"-">> ELSE <<>>)
    \o (IF self.en_passant_square < 64
        THEN <<" ">> \o square_to_algebraic(self.en_passant_square)
        ELSE <<" ", "-">>)

\* From<Board> for SquareCentricBoard, for a board that passes verify
SquareCentricBoard(value) ==
    [squares |-> [s \in value.occupied |->
                    <<IF s \in value.white THEN White ELSE Black,
                      CHOOSE p \in PieceSet : s \in value.bitboards[p]>>],
     flags |-> value.flags,
     en_passant_square |-> value.en_passant_square]

\* Board::from_fen and Board::fen
from_fen(fen_string) ==
    Only({IF parsed = None THEN None
          ELSE Some(BoardFromSquares(parsed[1].squares, parsed[1].flags,
                                     parsed[1].en_passant_square)) :
             parsed \in {parse_fen(fen_string)}})

BoardFen(self) == fen(SquareCentricBoard(self))

\* Valid standard FEN strings of six fields:
\*   4k3/8/8/8/3p4/8/4P3/4K3 w - - 0 1
\*   r3k2r/8/8/8/8/8/8/R3K2R w KQkq - 0 1
\*   8/8/8/3pP3/4K3/8/8/7k w - d6 0 1
StandardFens ==
    {<<"4", "k", "3", "/", "8", "/", "8", "/", "8", "/", "3", "p", "4", "/", "8", "/", "4", "P", "3", "/", "4", "K", "3", " ", "w", " ", "-", " ", "-", " ", "0", " ", "1">>,
     <<"r", "3", "k", "2", "r", "/", "8", "/", "8", "/", "8", "/", "8", "/", "8", "/", "8", "/", "R", "3", "K", "2", "R", " ", "w", " ", "K", "Q", "k", "q", " ", "-", " ", "0", " ", "1">>,
     <<"8", "/", "8", "/", "8", "/", "3", "p", "P", "3", "/", "4", "K", "3", "/", "8", "/", "8", "/", "7", "k", " ", "w", " ", "-", " ", "d", "6", " ", "0", " ", "1">>}

\* ------------------------------------------------------------------------
\* Move::from_uci (core/src/moves.rs, core/src/bitboard.rs)
\* ------------------------------------------------------------------------

UpperFileChars == <<"A", "B", "C", "D", "E", "F", "G", "H">>

\* algebraic_to_square: Some(square) of a file letter (either case) and a
\* rank digit 1..8, None for anything else
algebraic_to_square(algebraic) ==
    IF Len(algebraic) # 2 THEN None
    ELSE IF ~(IsChar(FileChars, algebraic[1]) \/ IsChar(UpperFileChars, algebraic[1])) THEN None
    ELSE IF ~IsChar(DigitChars, algebraic[2]) THEN None
    ELSE LET file == IF IsChar(FileChars, algebraic[1])
                     THEN IndexOfChar(FileChars, algebraic[1])
                     ELSE IndexOfChar(UpperFileChars, algebraic[1])
             rank == IndexOfChar(DigitChars, algebraic[2])
         IN IF rank < 1 \/ rank > 8 THEN None ELSE Some((rank - 1) * 8 + file)

\* The promotion letter read by from_uci: Some(piece), or None for a letter
\* that names no promotion piece
PromotionOfChar(c) ==
    CASE c = "q" -> Some("Queen")
      [] c = "r" -> Some("Rook")
      [] c = "b" -> Some("Bishop")
      [] c = "n" -> Some("Knight")
      [] OTHER -> None

\* The first piece type, in the order of Piece::colorless_iter, whose
\* bitboard holds the square
CurrentPiece(board, from) ==
    IF \E k \in 1..6 : from \in get(board, PieceTypes[k])
    THEN Some(PieceTypes[CHOOSE k \in 1..6 :
                  /\ from \in get(board, PieceTypes[k])
                  /\ \A l \in 1..(k - 1) : from \notin get(board, PieceTypes[l])])
    ELSE None

Abs(n) == IF n < 0 THEN 0 - n ELSE n

\* A from_uci that rebuilds no flag from the board
from_uci_without_flags(value, board) ==
    IF Len(value) < 4 THEN None
    ELSE
      LET from == algebraic_to_square(SubSeq(value, 1, 2))
          to == algebraic_to_square(SubSeq(value, 3, 4))
          promotion == IF Len(value) > 4 THEN PromotionOfChar(value[5]) ELSE Some(NoPiece)
      IN IF from = None \/ to = None \/ promotion = None THEN None
         ELSE LET current_piece == CurrentPiece(board, from[1])
              IN IF current_piece = None THEN None
                 ELSE Some(Move(from[1], to[1], current_piece[1], promotion[1], {}))

\* Move::from_uci
from_uci(value, board) ==
    IF Len(value) < 4 THEN None
    ELSE
      LET from == algebraic_to_square(SubSeq(value, 1, 2))
          to == algebraic_to_square(SubSeq(value, 3, 4))
          promotion == IF Len(value) > 4 THEN PromotionOfChar(value[5]) ELSE Some(NoPiece)
      IN IF from = None \/ to = None \/ promotion = None THEN None
         ELSE LET current_piece == CurrentPiece(board, from[1])
              IN IF current_piece = None THEN None
                 ELSE LET flags ==
                            IF /\ current_piece[1] = "Pawn"
                               /\ Abs(from[1] - to[1]) % 8 # 0
                               /\ to[1] \notin board.occupied
                            THEN {"EN_PASSANT"}
                            ELSE IF /\ current_piece[1] = "King"
                                    /\ \/ from[1] = 4 /\ to[1] = 6
                                       \/ from[1] = 60 /\ to[1] = 62
                            THEN {"CASTLE"}
                            ELSE IF /\ current_piece[1] = "King"
                                    /\ \/ from[1] = 4 /\ to[1] = 2
                                       \/ from[1] = 60 /\ to[1] = 58
                            THEN {"CASTLE"}
                            ELSE {}
                      IN Some(Move(from[1], to[1], current_piece[1], promotion[1], flags))

\* ------------------------------------------------------------------------
\* State
\* ------------------------------------------------------------------------

VARIABLES
    board,          \* AppState::board, the current position
    ply,            \* the number of moves played on board
    pruning,        \* the build has the feature alpha_beta_soft_pruning
    main,           \* the command thread: where it stands, what it waits for
    ai,             \* AppState::ai, the SimpleAi the commands address
    stop_signals,   \* the AtomicBool of every SimpleAi created so far
    workers,        \* every search thread spawned so far
    now,            \* the clock, in the unit of movetime
    stop_result,    \* what the last returned stop() returned
    magic,          \* the Magic a bench or a test generates, None before
    raycast         \* the last ray cast asked of magic, None before

vars == <<board, ply, pruning, main, ai, stop_signals, workers, now, stop_result,
          magic, raycast>>

\* AiLimit
AiLimit(movetime, depth) == [movetime |-> movetime, depth |-> depth]

\* SimpleAi::default: no context, no thread, a stop signal of its own
SimpleAiDefault(stop_signal) == [ctx |-> None, stop_signal |-> stop_signal, thread |-> 0]

\* The command thread between two commands. Inside a call, call names the
\* method entered, joining the thread whose join() is awaited, and limits
\* and print the arguments of a start that waits.
Idle ==
    [pc |-> "idle", call |-> "none", joining |-> 0, limits |-> AiLimit(None, None),
     print |-> FALSE]

\* The state after _main has built the AppState and loaded the default
\* engine, on a position of the given set and a build of the given set
EngineInit(positions, builds) ==
    /\ board \in positions
    /\ ply = 0
    /\ pruning \in builds
    /\ main = Idle
    /\ ai = SimpleAiDefault(1)
    /\ stop_signals = <<FALSE>>
    /\ workers = <<>>
    /\ now = 0
    /\ stop_result = None

\* The engine alone: no Magic is generated by the commands
InitWith(positions, builds) ==
    /\ EngineInit(positions, builds)
    /\ magic = None
    /\ raycast = None

\* The process is alive: the command thread has neither exited nor panicked
Running == main.pc \notin {"exited", "panicked"}

\* JoinHandle::is_finished, and what join() waits for
ThreadFinished(w) == workers[w].pc \in {"finished", "panicked"}

\* ------------------------------------------------------------------------
\* The board exploration: a generated move is applied to the board, as the
\* search does when it expands a node
\* ------------------------------------------------------------------------

PlayMove ==
    /\ ply < MaxPly
    /\ \E generated \in {generate_moves(board)} :
          /\ ~generated.panic
          /\ \E i \in 1..Len(generated.moves) : board' = apply(generated.moves[i], board)
    /\ ply' = ply + 1
    /\ UNCHANGED <<magic, raycast, pruning, main, ai, stop_signals, workers, now, stop_result>>

\* ------------------------------------------------------------------------
\* SimpleAiCtx::run, one loop iteration in two steps: the tests at the top
\* of the loop, then the pop and its match arm
\* ------------------------------------------------------------------------

EvaluatingEntry(noderef, alpha, beta) ==
    [kind |-> "Evaluating", noderef |-> noderef, alpha |-> alpha, beta |-> beta]

BacktrackingEntry(noderef, current_score, alpha, beta) ==
    [kind |-> "Backtracking", noderef |-> noderef, current_score |-> current_score,
     alpha |-> alpha, beta |-> beta]

\* The thread as thread::Builder::spawn leaves it
SpawnedWorker(root, limits, print, stop_signal) ==
    [ctx |-> TreeNew(TreeEntry(None, 0, evaluate(root), root, {})),
     limits |-> limits,
     print |-> print,
     stop_signal |-> stop_signal,
     stack |-> <<>>,
     epoch |-> 0,
     start_time |-> 0,
     pc |-> "spawned",
     out |-> <<>>]

\* for mv in moves.drain(..) { ... entry.push_child(...) }
RECURSIVE PushChildren(_, _, _)
PushChildren(tree, noderef, moves) ==
    IF moves = <<>> THEN tree
    ELSE LET mv == Head(moves)
             entry == Node(tree, noderef)
         IN Only({PushChildren(pushed, noderef, rest) :
                      pushed \in {Only({push_child(tree, noderef,
                                            TreeEntry(Some(mv), entry.depth + 1,
                                                      evaluate(new_board), new_board, {})) :
                                        new_board \in {apply(mv, entry.board)}})},
                      rest \in {Tail(moves)}})

\* The next pop would take the search past the bounds of the model: a new
\* epoch beyond MaxEpoch, or an expansion beyond MaxNodes
Capped(wk, max_epoch, max_nodes) ==
    IF wk.stack = <<>> THEN wk.epoch >= max_epoch
    ELSE LET top == wk.stack[Len(wk.stack)]
             entry == Node(wk.ctx, top.noderef)
         IN /\ top.kind = "Evaluating"
            /\ entry.first_child = 0
            /\ should_evaluate(entry, wk.epoch)
            /\ \E generated \in {generate_moves(entry.board)} :
                  ~generated.panic
                  /\ node_count(wk.ctx) + Len(generated.moves) > max_nodes

\* let mut epoch = 0u16; let start_time = Instant::now();
RunBegin(w) ==
    /\ Running
    /\ workers[w].pc = "spawned"
    /\ workers' = [workers EXCEPT ![w] = [@ EXCEPT !.epoch = 0, !.start_time = now,
                                                      !.pc = "loop"]]
    /\ UNCHANGED <<magic, raycast, board, ply, pruning, main, ai, stop_signals, now, stop_result>>

\* The tests of a loop that lacks the load of the stop signal: a loop the
\* properties of stop must tell from the loop of run
ShouldBreakWithoutStop(wk) ==
    \/ wk.limits.movetime # None /\ now - wk.start_time >= wk.limits.movetime[1]
    \/ wk.limits.depth # None /\ wk.epoch >= wk.limits.depth[1]

\* The three tests at the top of the loop
ShouldBreak(wk) ==
    \/ stop_signals[wk.stop_signal]
    \/ wk.limits.movetime # None /\ now - wk.start_time >= wk.limits.movetime[1]
    \/ wk.limits.depth # None /\ wk.epoch >= wk.limits.depth[1]

\* A test breaks the loop: the bestmove line is printed and the thread
\* returns its context
LoopBreak(w) ==
    /\ Running
    /\ workers[w].pc = "loop"
    /\ ShouldBreak(workers[w])
    /\ LET wk == workers[w]
       IN workers' = [workers EXCEPT ![w] =
              [wk EXCEPT !.pc = "finished",
                         !.stack = <<>>,
                         !.out = IF wk.print THEN Append(wk.out, BestMoveLine(wk.ctx))
                                 ELSE wk.out]]
    /\ UNCHANGED <<magic, raycast, board, ply, pruning, main, ai, stop_signals, now, stop_result>>

\* No test breaks the loop: the iteration goes on to the pop
LoopContinue(w, max_epoch, max_nodes) ==
    /\ Running
    /\ workers[w].pc = "loop"
    /\ ~ShouldBreak(workers[w])
    /\ ~Capped(workers[w], max_epoch, max_nodes)
    /\ workers' = [workers EXCEPT ![w] = [@ EXCEPT !.pc = "pop"]]
    /\ UNCHANGED <<magic, raycast, board, ply, pruning, main, ai, stop_signals, now, stop_result>>

\* Some(StackEntry::Evaluating(evaluating))
Evaluating(w) ==
    /\ Running
    /\ workers[w].pc = "pop"
    /\ workers[w].stack # <<>>
    /\ workers[w].stack[Len(workers[w].stack)].kind = "Evaluating"
    /\ LET wk == workers[w]
           evaluating == wk.stack[Len(wk.stack)]
           rest == SubSeq(wk.stack, 1, Len(wk.stack) - 1)
           entry == Node(wk.ctx, evaluating.noderef)
           color == next_to_move(entry.board)
           Pushed(tree, entries) ==
               workers' = [workers EXCEPT ![w] =
                   [wk EXCEPT !.ctx = tree, !.stack = rest \o entries, !.pc = "loop"]]
       IN IF entry.first_child # 0
          THEN Pushed(wk.ctx,
                   <<BacktrackingEntry(evaluating.noderef, minmax_ini(color),
                                       evaluating.alpha, evaluating.beta),
                     EvaluatingEntry(entry.first_child, evaluating.alpha, evaluating.beta)>>)
          ELSE IF should_evaluate(entry, wk.epoch)
          THEN \E generated \in {generate_moves(entry.board)} :
               IF generated.panic
               \* the thread unwinds: its locals and its context are dropped
               THEN workers' = [workers EXCEPT ![w] = [wk EXCEPT !.pc = "panicked"]]
               ELSE IF generated.moves = <<>>
               THEN LET flag == IF generated.currently_in_check
                                THEN (IF color = White THEN "CHECKMATE_BLACK_WIN"
                                      ELSE "CHECKMATE_WHITE_WIN")
                                ELSE "STALEMATE"
                        score == IF generated.currently_in_check THEN minmax_ini(color)
                                 ELSE 0
                    IN Pushed([wk.ctx EXCEPT ![evaluating.noderef + 1] =
                                   [entry EXCEPT !.flags = entry.flags \cup {flag},
                                                 !.score = score]],
                              <<BacktrackingEntry(evaluating.noderef, score,
                                                  evaluating.alpha, evaluating.beta)>>)
               ELSE \E tree \in {PushChildren(wk.ctx, evaluating.noderef, generated.moves)} :
                    LET first_child_noderef == Node(tree, evaluating.noderef).first_child
                    IN Pushed(tree,
                           <<BacktrackingEntry(evaluating.noderef, minmax_ini(color),
                                               evaluating.alpha, evaluating.beta),
                             EvaluatingEntry(first_child_noderef, evaluating.alpha,
                                             evaluating.beta)>>)
          ELSE Pushed(wk.ctx,
                   <<BacktrackingEntry(evaluating.noderef, entry.score,
                                       evaluating.alpha, evaluating.beta)>>)
    /\ UNCHANGED <<magic, raycast, board, ply, pruning, main, ai, stop_signals, now, stop_result>>

\* A pruning test against the bound of the parent's own side: it skips
\* the siblings after the first child
pruning_on_own_bound(parent_color, current_score, alpha, beta) ==
    IF parent_color = White THEN current_score >= alpha ELSE current_score <= beta

\* The soft pruning test of the Backtracking arm: under a parent with White
\* to move a score that reaches beta, under a parent with Black to move a
\* score that falls to alpha
soft_pruning(parent_color, current_score, alpha, beta) ==
    IF parent_color = White THEN current_score >= beta ELSE current_score <= alpha

\* Some(StackEntry::Backtracking(backtracking))
Backtracking(w) ==
    /\ Running
    /\ workers[w].pc = "pop"
    /\ workers[w].stack # <<>>
    /\ workers[w].stack[Len(workers[w].stack)].kind = "Backtracking"
    /\ LET wk == workers[w]
           backtracking == wk.stack[Len(wk.stack)]
           rest == SubSeq(wk.stack, 1, Len(wk.stack) - 1)
           entry == Node(wk.ctx, backtracking.noderef)
           current_color == next_to_move(entry.board)
           next_sibling_noderef == entry.next_siblings
           tree == [wk.ctx EXCEPT ![backtracking.noderef + 1].score =
                                     backtracking.current_score]
           \* cfg(feature = "alpha_beta_soft_pruning")
           alpha == IF pruning /\ opposite(current_color) = White
                       /\ backtracking.current_score > backtracking.alpha
                    THEN backtracking.current_score ELSE backtracking.alpha
           beta == IF pruning /\ opposite(current_color) = Black
                      /\ backtracking.current_score < backtracking.beta
                   THEN backtracking.current_score ELSE backtracking.beta
           prunned == /\ pruning
                      /\ soft_pruning(opposite(current_color), backtracking.current_score,
                                      backtracking.alpha, backtracking.beta)
           \* stack.last_mut(), try_as_backtracking_mut().unwrap()
           parent_is_evaluating == rest # <<>> /\ rest[Len(rest)].kind # "Backtracking"
           parent_updated ==
               IF rest = <<>> THEN rest
               ELSE LET parent_backtracking == rest[Len(rest)]
                        parent_color ==
                            next_to_move(Node(tree, parent_backtracking.noderef).board)
                    IN [rest EXCEPT ![Len(rest)].current_score =
                           minmax(parent_color, parent_backtracking.current_score,
                                  backtracking.current_score)]
       IN IF parent_is_evaluating
          THEN workers' = [workers EXCEPT ![w] = [wk EXCEPT !.pc = "panicked"]]
          ELSE workers' = [workers EXCEPT ![w] =
                   [wk EXCEPT !.ctx = tree,
                              !.stack = parent_updated
                                  \o (IF next_sibling_noderef # 0 /\ ~prunned
                                      THEN <<EvaluatingEntry(next_sibling_noderef, alpha, beta)>>
                                      ELSE <<>>),
                              !.pc = "loop"]]
    /\ UNCHANGED <<magic, raycast, board, ply, pruning, main, ai, stop_signals, now, stop_result>>

\* The largest value of the u16 that counts the epochs
U16_MAX == 65535

\* None: the stack is empty, a new pass starts from the root. epoch += 1 on
\* a u16: at U16_MAX a build with overflow checks panics, a build without
\* them wraps to 0
NewEpoch(w) ==
    /\ Running
    /\ workers[w].pc = "pop"
    /\ workers[w].stack = <<>>
    /\ \E result \in {derive_results(workers[w].ctx)} :
       \E overflow_checks \in (IF workers[w].epoch = U16_MAX THEN BOOLEAN ELSE {FALSE}) :
       LET wk == workers[w]
           epoch == (wk.epoch + 1) % (U16_MAX + 1)
       IN IF overflow_checks
          THEN workers' = [workers EXCEPT ![w] = [wk EXCEPT !.pc = "panicked"]]
          ELSE workers' = [workers EXCEPT ![w] =
              [wk EXCEPT !.epoch = epoch,
                         !.stack = <<EvaluatingEntry(ROOT, NEG_INFINITY, INFINITY)>>,
                         !.out = IF wk.print /\ result # None
                                 THEN Append(wk.out, InfoLine(epoch, wk.ctx,
                                                              now - wk.start_time, result[1]))
                                 ELSE wk.out,
                         !.pc = "loop"]]
    /\ UNCHANGED <<magic, raycast, board, ply, pruning, main, ai, stop_signals, now, stop_result>>

\* ------------------------------------------------------------------------
\* SimpleAi::start, stop and reset (core/src/ai/simple.rs), each cut at its
\* join(), and the commands that replace the engine or end the process
\* (sterm/src/state.rs)
\* ------------------------------------------------------------------------

\* A start that spawns and registers the thread and leaves the stop signal
\* as the request to the previous thread set it
spawn_with_signal_kept(limits, print) ==
    /\ workers' = Append(workers, SpawnedWorker(board, limits, print, ai.stop_signal))
    /\ stop_signals' = stop_signals
    /\ ai' = [ai EXCEPT !.thread = Len(workers) + 1]
    /\ main' = Idle

\* The end of start: a fresh context on the current board, the stop signal
\* cleared, the thread spawned and registered
Spawn(limits, print) ==
    /\ workers' = Append(workers, SpawnedWorker(board, limits, print, ai.stop_signal))
    /\ stop_signals' = [stop_signals EXCEPT ![ai.stop_signal] = FALSE]
    /\ ai' = [ai EXCEPT !.thread = Len(workers) + 1]
    /\ main' = Idle

\* SimpleAi::start, up to the join of a registered thread
start(limits_set, prints, max_starts) ==
    /\ main.pc = "idle"
    /\ Len(workers) < max_starts
    /\ \E limits \in limits_set, print \in prints :
          IF ai.thread # 0
          THEN /\ stop_signals' = [stop_signals EXCEPT ![ai.stop_signal] = TRUE]
               /\ main' = [pc |-> "start_join", call |-> "start", joining |-> ai.thread,
                           limits |-> limits, print |-> print]
               /\ ai' = [ai EXCEPT !.thread = 0]
               /\ UNCHANGED workers
          ELSE Spawn(limits, print)
    /\ UNCHANGED <<magic, raycast, board, ply, pruning, now, stop_result>>

\* join() returns in start: unwrap() panics on the Err of a panicked thread
StartJoined ==
    /\ main.pc = "start_join"
    /\ ThreadFinished(main.joining)
    /\ IF workers[main.joining].pc = "panicked"
       THEN /\ main' = [main EXCEPT !.pc = "panicked"]
            /\ UNCHANGED <<ai, stop_signals, workers>>
       ELSE Spawn(main.limits, main.print)
    /\ UNCHANGED <<magic, raycast, board, ply, pruning, now, stop_result>>

\* SimpleAi::stop, up to the join: take().unwrap() panics when no thread is
\* registered
stop ==
    /\ main.pc = "idle"
    /\ stop_signals' = [stop_signals EXCEPT ![ai.stop_signal] = TRUE]
    /\ IF ai.thread = 0
       THEN main' = [main EXCEPT !.pc = "panicked", !.call = "stop"] /\ UNCHANGED ai
       ELSE /\ main' = [main EXCEPT !.pc = "stop_join", !.call = "stop", !.joining = ai.thread]
            /\ ai' = [ai EXCEPT !.thread = 0]
    /\ UNCHANGED <<magic, raycast, board, ply, pruning, workers, now, stop_result>>

\* join() returns in stop: the context is stored and derive_results returned
StopJoined ==
    /\ main.pc = "stop_join"
    /\ ThreadFinished(main.joining)
    /\ IF workers[main.joining].pc = "panicked"
       THEN /\ main' = [main EXCEPT !.pc = "panicked"]
            /\ UNCHANGED <<ai, stop_result>>
       ELSE /\ main' = Idle
            /\ ai' = [ai EXCEPT !.ctx = Some(workers[main.joining].ctx)]
            /\ stop_result' = Some(derive_results(workers[main.joining].ctx))
    /\ UNCHANGED <<magic, raycast, board, ply, pruning, stop_signals, workers, now>>

\* SimpleAi::reset, up to the join of a registered thread
reset ==
    /\ main.pc = "idle"
    /\ stop_signals' = [stop_signals EXCEPT ![ai.stop_signal] = TRUE]
    /\ IF ai.thread # 0
       THEN /\ main' = [main EXCEPT !.pc = "reset_join", !.call = "reset",
                                     !.joining = ai.thread]
            /\ ai' = [ai EXCEPT !.thread = 0]
       ELSE /\ ai' = [ai EXCEPT !.ctx = None]
            /\ UNCHANGED main
    /\ UNCHANGED <<magic, raycast, board, ply, pruning, workers, now, stop_result>>

\* join() returns in reset: the context is cleared
ResetJoined ==
    /\ main.pc = "reset_join"
    /\ ThreadFinished(main.joining)
    /\ IF workers[main.joining].pc = "panicked"
       THEN main' = [main EXCEPT !.pc = "panicked"] /\ UNCHANGED ai
       ELSE main' = Idle /\ ai' = [ai EXCEPT !.ctx = None]
    /\ UNCHANGED <<magic, raycast, board, ply, pruning, stop_signals, workers, now, stop_result>>

\* SimpleAi::is_ready: with a thread registered, the negation of
\* JoinHandle::is_finished; true with none
is_ready == IF ai.thread # 0 THEN ~ThreadFinished(ai.thread) ELSE TRUE

\* LoadAiCommand: state.ai = Some(ai). The SimpleAi replaced is dropped; it
\* has no Drop, so its JoinHandle is dropped and the thread is detached.
LoadAiCommand ==
    /\ main.pc = "idle"
    /\ Len(stop_signals) <= MaxLoads
    /\ stop_signals' = Append(stop_signals, FALSE)
    /\ ai' = SimpleAiDefault(Len(stop_signals) + 1)
    /\ UNCHANGED <<magic, raycast, board, ply, pruning, main, workers, now, stop_result>>

\* QuitCommand: std::process::exit(0)
QuitCommand ==
    /\ main.pc = "idle"
    /\ main' = [main EXCEPT !.pc = "exited"]
    /\ UNCHANGED <<magic, raycast, board, ply, pruning, ai, stop_signals, workers, now, stop_result>>

\* Time passes
Tick ==
    /\ Running
    /\ now < MaxTime
    /\ now' = now + 1
    /\ UNCHANGED <<magic, raycast, board, ply, pruning, main, ai, stop_signals, workers, stop_result>>

\* Magic::generate on entry, in a build without debug_assertions: the two
\* arrays hold zeroed SMagic, the attack table is empty, no find_magic call
\* has been made
MagicGenerating ==
    [debug_assertions |-> FALSE, pc |-> "generate", calls |-> 0,
     bishop |-> [s \in Squares |-> SMagicZero], rook |-> [s \in Squares |-> SMagicZero],
     attack_table |-> <<>>]

\* Magic::generate of a build with debug_assertions: Self {}
MagicDebug ==
    [debug_assertions |-> TRUE, pc |-> "ready", calls |-> 0,
     bishop |-> [s \in Squares |-> SMagicZero], rook |-> [s \in Squares |-> SMagicZero],
     attack_table |-> <<>>]

\* One find_magic call of generate and what generate does with its result.
\* The trials that are passed over or collide leave nothing behind; the
\* first candidate that passes is any of those the trial accepts, and its
\* slots are appended to the attack table.
find_magic ==
    /\ magic # None
    /\ magic.pc = "generate"
    /\ \E call \in {GenerateCalls[magic.calls + 1]} :
       \E m \in {IF call.is_bishop THEN BISHOP_BITS[call.square + 1]
                 ELSE ROOK_BITS[call.square + 1]} :
       \E mask \in {MagicMask(call.square, call.is_bishop)} :
       \E b \in {BlockerSubsets(Cardinality(mask), mask)} :
       \E a \in {ReferenceAttacks(call.square, call.is_bishop, b)} :
       \E candidate \in MagicCandidates :
       \E found \in {Trial(call.square, m, call.is_bishop, candidate, mask, b, a)} :
          /\ found # None
          /\ LET entry == SMagic(mask, candidate, Len(magic.attack_table), m)
                 slots == [k \in 1..(ilog2(DOMAIN found[1]) + 1) |-> found[1][k - 1]]
             IN magic' =
                 [magic EXCEPT
                    !.bishop = IF call.is_bishop THEN [@ EXCEPT ![call.square] = entry] ELSE @,
                    !.rook = IF call.is_bishop THEN @ ELSE [@ EXCEPT ![call.square] = entry],
                    !.attack_table = @ \o slots,
                    !.calls = @ + 1,
                    !.pc = IF magic.calls + 1 = Len(GenerateCalls) THEN "ready"
                           ELSE "generate"]
    /\ UNCHANGED <<board, ply, pruning, main, ai, stop_signals, workers, now, stop_result,
                   raycast>>

\* find_magic returns None after its last trial and expect() panics
FindMagicFails ==
    /\ magic # None
    /\ magic.pc = "generate"
    /\ magic' = [magic EXCEPT !.pc = "panicked"]
    /\ UNCHANGED <<board, ply, pruning, main, ai, stop_signals, workers, now, stop_result,
                   raycast>>

\* The body of Magic::bishop_raycast and Magic::rook_raycast without
\* debug_assertions: the slot read and its content, or the panic of an
\* index past the end of the table
MagicLookup(entry, occupancy, attack_table) ==
    Only({ IF index + 1 > Len(attack_table)
           THEN [panic |-> TRUE, index |-> index, value |-> {}]
           ELSE [panic |-> FALSE, index |-> index, value |-> attack_table[index + 1]] :
              index \in {entry.offset
                         + transform(occupancy \cap entry.mask, entry.magic, entry.bits)} })

\* Magic::bishop_raycast
bishop_raycast(square, occupancy) ==
    /\ magic # None
    /\ magic.pc = "ready"
    /\ raycast' =
         Some([is_bishop |-> TRUE, square |-> square, occupancy |-> occupancy,
               result |-> IF magic.debug_assertions
                          THEN [panic |-> FALSE, index |-> 0,
                                value |-> bishop_legacy_raycast(square, occupancy)]
                          ELSE MagicLookup(magic.bishop[square], occupancy,
                                           magic.attack_table)])
    /\ UNCHANGED <<board, ply, pruning, main, ai, stop_signals, workers, now, stop_result,
                   magic>>

\* Magic::rook_raycast
rook_raycast(square, occupancy) ==
    /\ magic # None
    /\ magic.pc = "ready"
    /\ raycast' =
         Some([is_bishop |-> FALSE, square |-> square, occupancy |-> occupancy,
               result |-> IF magic.debug_assertions
                          THEN [panic |-> FALSE, index |-> 0,
                                value |-> rook_legacy_raycast(square, occupancy)]
                          ELSE MagicLookup(magic.rook[square], occupancy,
                                           magic.attack_table)])
    /\ UNCHANGED <<board, ply, pruning, main, ai, stop_signals, workers, now, stop_result,
                   magic>>

\* ------------------------------------------------------------------------
\* Specifications
\* ------------------------------------------------------------------------

\* One step of the search thread w
WorkerStep(w, max_epoch, max_nodes) ==
    /\ w \in DOMAIN workers
    /\ \/ RunBegin(w)
       \/ LoopBreak(w)
       \/ LoopContinue(w, max_epoch, max_nodes)
       \/ Evaluating(w)
       \/ Backtracking(w)
       \/ NewEpoch(w)

\* The board exploration: the positions it starts from
StartPositions ==
    {EnPassantPinBoard, EnPassantCheckBoard, MateInOneBoard, QueenBoard, CastlingBoard,
     PromotionBoard, StalemateBoard, DoublePushBoard, FullCastlingBoard,
     BlockedCastlingBoard, PinBoard, EdgeDoublePushBoard}

MovesInit == InitWith(StartPositions, {FALSE})

MovesNext == PlayMove

SpecMoves == MovesInit /\ [][MovesNext]_vars

\* One search followed through its passes: go, then stop at any time
SearchPositions ==
    {MateInOneBoard, EnPassantSearchBoard, OneMoveBoard, RookMateWhiteBoard,
     RookMateBlackBoard}

SearchLimits == {AiLimit(None, None), AiLimit(Some(1), None), AiLimit(None, Some(2))}

SearchInit == InitWith(SearchPositions, BOOLEAN)

SearchNext ==
    \/ start(SearchLimits, {TRUE}, 1)
    \/ stop
    \/ StopJoined
    \/ Tick
    \/ \E w \in 1..Len(workers) : WorkerStep(w, MaxEpoch, MaxNodes)

SpecSearch == SearchInit /\ [][SearchNext]_vars

\* One search followed through all the values of its epoch counter, on
\* positions whose tree stops growing
EpochPositions == {StalemateBoard, MateInOneBoard}

EpochLimits == {AiLimit(None, None), AiLimit(None, Some(1))}

EpochsInit == InitWith(EpochPositions, {FALSE})

\* The search of the stalemated position under go infinite, at the end of
\* its pass number passes: the root is flagged, each pass has left the tree
\* and the output as they were and has added 1 to epoch
AfterPasses(passes) ==
    /\ board = StalemateBoard
    /\ ply = 0
    /\ pruning = FALSE
    /\ main = Idle
    /\ ai = [SimpleAiDefault(1) EXCEPT !.thread = 1]
    /\ stop_signals = <<FALSE>>
    /\ workers = <<[SpawnedWorker(StalemateBoard, AiLimit(None, None), TRUE, 1)
                      EXCEPT !.ctx = <<[@[1] EXCEPT !.flags = {"STALEMATE"}, !.score = 0]>>,
                             !.epoch = passes,
                             !.pc = "pop"]>>
    /\ now = 0
    /\ stop_result = None
    /\ magic = None
    /\ raycast = None

EpochsNext ==
    \/ start(EpochLimits, {TRUE}, 1)
    \/ \E w \in 1..Len(workers) : WorkerStep(w, U16_MAX + 1, MaxNodes)

\* The passes from the first on, and, to keep the behaviours that reach the
\* end of the counter short, from the pass U16_MAX - 2 on as well
SpecEpochs == (EpochsInit \/ AfterPasses(U16_MAX - 2)) /\ [][EpochsNext]_vars

\* The engine under every command, on positions whose search stays small
LifecyclePositions == {OneMoveBoard}

Limits == {AiLimit(None, None), AiLimit(None, Some(1))}

Init == InitWith(LifecyclePositions, {FALSE})

LifecycleStep(w) == WorkerStep(w, LifecycleEpochs, LifecycleNodes)

Next ==
    \/ start(Limits, {TRUE}, MaxStarts)
    \/ StartJoined
    \/ stop
    \/ StopJoined
    \/ reset
    \/ ResetJoined
    \/ LoadAiCommand
    \/ QuitCommand
    \/ \E w \in 1..Len(workers) : LifecycleStep(w)

Spec == Init /\ [][Next]_vars

\* The search threads are scheduled fairly, and a join() that can return does
FairSpec ==
    /\ Spec
    /\ \A w \in 1..MaxStarts : WF_vars(LifecycleStep(w))
    /\ WF_vars(StartJoined \/ StopJoined \/ ResetJoined)

\* The magic tables: generate, then the ray casts of a bench or a test
MagicInit ==
    /\ EngineInit(LifecyclePositions, {FALSE})
    /\ magic \in {MagicGenerating, MagicDebug}
    /\ raycast = None

MagicNext ==
    \/ find_magic
    \/ FindMagicFails
    \/ \E k \in 1..Len(MagicBishopSquares), occupancy \in Occupancies :
          bishop_raycast(MagicBishopSquares[k], occupancy)
    \/ \E k \in 1..Len(MagicRookSquares), occupancy \in Occupancies :
          rook_raycast(MagicRookSquares[k], occupancy)

SpecMagic == MagicInit /\ [][MagicNext]_vars

\* ------------------------------------------------------------------------
\* Properties
\* ------------------------------------------------------------------------

\* The command thread waits in a join()
Joining == main.pc \in {"start_join", "stop_join", "reset_join"}

\* C2: once a worker's stop flag is set, the step the worker takes from the
\* top of its loop leaves the loop with the tree and the epoch as they were
\* (nothing is popped, expanded or scored), a thread that has returned does
\* nothing more, and under fair scheduling every join() the command thread
\* waits in returns.
C2_StopIsCooperative ==
    /\ [][\A w \in 1..Len(workers) :
            /\ (/\ workers[w].pc = "loop"
                /\ stop_signals[workers[w].stop_signal]
                /\ workers'[w] # workers[w])
               => (/\ workers'[w].pc = "finished"
                   /\ workers'[w].ctx = workers[w].ctx
                   /\ workers'[w].epoch = workers[w].epoch)
            /\ workers[w].pc = "finished" => workers'[w] = workers[w]]_vars
    /\ \A w \in 1..MaxStarts : (Joining /\ main.joining = w) ~> ~(Joining /\ main.joining = w)

\* C2 witness: a search without limits that had finished an epoch has left
\* its loop on the stop flag and the join() of stop has returned its context
C2_Witness ==
    \E w \in 1..Len(workers) :
        /\ workers[w].pc = "finished"
        /\ workers[w].epoch >= 1
        /\ workers[w].limits = AiLimit(None, None)
        /\ stop_signals[workers[w].stop_signal]
        /\ main.pc = "idle"
        /\ ai.ctx = Some(workers[w].ctx)

\* C1: whatever the commands before it, stop does not panic. stop_result,
\* what a stop that returned gave back, is derive_results of the context the
\* thread returned: Some(result) when the tree holds a principal variation,
\* None otherwise.
C1_StopAlwaysSucceeds ==
    /\ ~(main.pc = "panicked" /\ main.call = "stop")
    /\ (main.pc = "idle" /\ stop_result # None /\ ai.ctx # None)
       => stop_result[1] = (IF PrincipalVariation(ai.ctx[1], ROOT) # <<>>
                            THEN derive_results(ai.ctx[1]) ELSE None)

\* The indices of the bestmove lines a worker has printed
BestMoveLines(w) == {i \in 1..Len(workers[w].out) : workers[w].out[i].kind = "bestmove"}

\* C3: a worker started with print = true prints at most one bestmove line,
\* nothing after it, and once its thread has ended it has printed exactly
\* one: the line of derive_results on its tree.
C3_OneBestMoveLineLast ==
    \A w \in 1..Len(workers) :
        workers[w].print =>
            /\ Cardinality(BestMoveLines(w)) <= 1
            /\ BestMoveLines(w) \subseteq {Len(workers[w].out)}
            /\ ThreadFinished(w) =>
                  /\ BestMoveLines(w) = {Len(workers[w].out)}
                  /\ Len(workers[w].out) > 0
                  /\ workers[w].out[Len(workers[w].out)] = BestMoveLine(workers[w].ctx)

\* C4: a worker past the tests of its loop has not reached its depth limit;
\* a worker that returned with its stop signal clear had a limit and had
\* reached it; and the thread of a worker started with neither limit ends
\* only once its stop signal is set.
C4_LoopTermination ==
    \A w \in 1..Len(workers) :
        LET wk == workers[w]
            stopped == stop_signals[wk.stop_signal]
            timed_out == wk.limits.movetime # None
                         /\ now - wk.start_time >= wk.limits.movetime[1]
            deep_enough == wk.limits.depth # None /\ wk.epoch >= wk.limits.depth[1]
        IN /\ wk.pc = "pop" => ~deep_enough
           /\ (wk.pc = "finished" /\ ~stopped) => (timed_out \/ deep_enough)
           /\ (ThreadFinished(w) /\ wk.limits = AiLimit(None, None)) => stopped

\* C5: a search thread that has not ended belongs to the engine the commands
\* address, and the process has not exited: no command abandons an engine
\* (by replacing it or by exiting) whose worker still runs.
C5_AbandonedEngineIsStopped ==
    \A w \in 1..Len(workers) :
        ~ThreadFinished(w) =>
            /\ main.pc # "exited"
            /\ workers[w].stop_signal = ai.stop_signal
            /\ (ai.thread = w \/ (Joining /\ main.joining = w))

\* C6: a search of 6k1/5ppp/8/8/8/8/5PPP/R5K1 w started with depth = Some(2)
\* that ended without a stop has printed bestmove a1a8 last, and the score
\* of its root is the mate score of White.
C6_MateInOne ==
    \A w \in 1..Len(workers) :
        (/\ Node(workers[w].ctx, ROOT).board = MateInOneBoard
         /\ workers[w].limits = AiLimit(None, Some(2))
         /\ ThreadFinished(w)
         /\ ~stop_signals[workers[w].stop_signal])
        => /\ Len(workers[w].out) > 0
           /\ workers[w].out[Len(workers[w].out)].kind = "bestmove"
           /\ workers[w].out[Len(workers[w].out)].best = <<"a", "1", "a", "8">>
           /\ Node(workers[w].ctx, ROOT).score = INFINITY

\* C7: on a valid board generate_moves returns the legal moves of the
\* reference, each exactly once, and nothing else.
C7_ExactlyTheLegalMoves ==
    ValidBoard(board) =>
        \A generated \in {generate_moves(board)} :
            /\ ~generated.panic
            /\ {generated.moves[i] : i \in 1..Len(generated.moves)} = RefLegalMoves(board)
            /\ Len(generated.moves) = Cardinality(RefLegalMoves(board))

\* After the en passant capture m on the board, an enemy rook or queen
\* attacks the mover's king along a rank or a file through the square the
\* capturing pawn left or the square of the captured pawn
ExposedByEnPassant(b, m) ==
    LET mover == next_to_move(b)
        after == RefView(apply(m, b))
        captured == IF mover = White THEN m.to - 8 ELSE m.to + 8
        Between(s, t) ==
            LET df == RefFile(t) - RefFile(s)
                dr == RefRank(t) - RefRank(s)
                n == IF RefAbs(df) > RefAbs(dr) THEN RefAbs(df) ELSE RefAbs(dr)
            IN {s + k * (signum(df) + 8 * signum(dr)) : k \in 1..(n - 1)}
    IN \E king \in Squares, s \in Squares :
          /\ after[king] = <<mover, "King">>
          /\ after[s] \in {<<opposite(mover), "Rook">>, <<opposite(mover), "Queen">>}
          /\ RefPieceAttacks(after, s, opposite(mover), "Rook", king)
          /\ Between(s, king) \cap {m.from, captured} # {}

\* C8: generate_moves returns no en passant capture that exposes the
\* capturing side's king along a rank or a file through the squares the two
\* pawns leave.
C8_NoExposingEnPassant ==
    ValidBoard(board) =>
        \A generated \in {generate_moves(board)} :
            \A i \in 1..Len(generated.moves) :
                "EN_PASSANT" \in generated.moves[i].flags
                    => ~ExposedByEnPassant(board, generated.moves[i])

\* C9: on a valid board the check flag generate_moves writes is true exactly
\* when an enemy piece attacks the king of the side to move; so an empty
\* move list comes with the flag set at checkmate and clear at stalemate.
C9_CheckFlag ==
    ValidBoard(board) =>
        \A generated \in {generate_moves(board)} :
            generated.currently_in_check <=> RefInCheck(RefView(board), next_to_move(board))

\* C9 witness: a move has been played into a valid board that is checkmate,
\* no move generated and the flag set
C9_Witness ==
    /\ ply > 0
    /\ ValidBoard(board)
    /\ RefInCheck(RefView(board), next_to_move(board))
    /\ generate_moves(board).moves = <<>>
    /\ generate_moves(board).currently_in_check

\* C10: every board reached by generated moves applied with apply keeps the
\* board invariants: disjoint piece bitboards whose union is occupied, white
\* within occupied, one king of each colour, no pawn on rank 1 or rank 8.
C10_BoardInvariants == BoardInvariants(board)

\* The move m of the side to move of board b has been carried out on the
\* board after: the origin is empty, the destination holds the moved piece
\* (the promotion piece of a promotion) in the mover's colour and nothing
\* else, and the other side is to move
Carried(b, m, after) ==
    LET color == next_to_move(b)
        placed == IF m.promotion # NoPiece THEN m.promotion ELSE m.piece
    IN /\ m.from \notin after.occupied
       /\ m.from \notin after.white
       /\ \A p \in PieceSet : m.from \notin after.bitboards[p]
       /\ m.to \in after.occupied
       /\ (m.to \in after.white) <=> (color = White)
       /\ \A p \in PieceSet : (m.to \in after.bitboards[p]) <=> (p = placed)
       /\ next_to_move(after) = opposite(color)

\* C11: on a valid board every generated move, once applied, leaves its
\* origin empty, its destination held by the moved piece type (or by the
\* promotion piece) in the mover's colour, and the side to move toggled.
C11_ApplyMovesThePiece ==
    ValidBoard(board) =>
        \A generated \in {generate_moves(board)} :
            \A i \in 1..Len(generated.moves) :
                Carried(board, generated.moves[i], apply(generated.moves[i], board))

\* C11 witness: a move has been played into a valid board on which a
\* promotion with capture or a castle is generated and carried out by apply
C11_Witness ==
    /\ ply > 0
    /\ ValidBoard(board)
    /\ \E generated \in {generate_moves(board)} :
          \E i \in 1..Len(generated.moves) :
              /\ \/ generated.moves[i].promotion # NoPiece
                 \/ "CASTLE" \in generated.moves[i].flags
              /\ Carried(board, generated.moves[i], apply(generated.moves[i], board))

\* m is a pawn advance of two squares along its file
TwoSquareAdvance(m) ==
    /\ m.piece = "Pawn"
    /\ RefFile(m.to) = RefFile(m.from)
    /\ RefAbs(RefRank(m.to) - RefRank(m.from)) = 2

\* The side whose turn the flags of board b record
SideToMove(b) == IF "WHITE_TO_MOVE" \in b.flags THEN White ELSE Black

\* The square behind the destination of m, seen from the mover
BehindDestination(b, m) == IF SideToMove(b) = White THEN m.to - 8 ELSE m.to + 8

\* What apply(m, b) does to the en passant square and, for an en passant
\* capture, to the captured pawn
EnPassantBookkeeping(b, m, after) ==
    LET mover == SideToMove(b)
        behind == BehindDestination(b, m)
    IN /\ after.en_passant_square \in 0..64
       /\ (after.en_passant_square < 64) <=> TwoSquareAdvance(m)
       /\ TwoSquareAdvance(m) =>
             /\ 2 * after.en_passant_square = m.from + m.to
             /\ RefView(after)[m.to] = <<mover, "Pawn">>
             /\ SideToMove(after) # mover
       /\ "EN_PASSANT" \in m.flags =>
             /\ RefView(b)[behind] = <<opposite(mover), "Pawn">>
             /\ behind = (IF mover = White THEN b.en_passant_square - 8
                          ELSE b.en_passant_square + 8)
             /\ after.bitboards["Pawn"] = (b.bitboards["Pawn"] \ {m.from, behind}) \cup {m.to}
             /\ \A p \in PieceSet \ {"Pawn"} : after.bitboards[p] = b.bitboards[p]
             /\ after.occupied = (b.occupied \ {m.from, behind}) \cup {m.to}
             /\ after.white = (IF mover = White THEN (b.white \ {m.from}) \cup {m.to}
                               ELSE b.white \ {behind})
             /\ after.en_passant_square = 64

CastlingRights ==
    {"WHITE_KING_SIDE_CASTLE", "WHITE_QUEEN_SIDE_CASTLE",
     "BLACK_KING_SIDE_CASTLE", "BLACK_QUEEN_SIDE_CASTLE"}

\* The colour, the king's home square and the rook's corner of a right
RightHome(right) ==
    CASE right = "WHITE_KING_SIDE_CASTLE" -> [color |-> White, king |-> 4, rook |-> 7]
      [] right = "WHITE_QUEEN_SIDE_CASTLE" -> [color |-> White, king |-> 4, rook |-> 0]
      [] right = "BLACK_KING_SIDE_CASTLE" -> [color |-> Black, king |-> 60, rook |-> 63]
      [] right = "BLACK_QUEEN_SIDE_CASTLE" -> [color |-> Black, king |-> 60, rook |-> 56]

\* Every right set on board b has its king and its rook at home
RightsAtHome(b) ==
    \A right \in CastlingRights \cap b.flags :
        LET home == RightHome(right)
        IN /\ home.king \in b.bitboards["King"]
           /\ home.rook \in b.bitboards["Rook"]
           /\ {home.king, home.rook} \subseteq b.occupied
           /\ \A s \in {home.king, home.rook} : (s \in b.white) <=> (home.color = White)

\* C13: along the generated moves applied from the start positions, whose
\* set rights all have king and rook at home, a castling right once cleared
\* is never set again, and a right that is set has the king of its colour on
\* e1/e8 and a rook of its colour on its corner.
C13_CastlingRights ==
    /\ [](RightsAtHome(board))
    /\ [][(CastlingRights \cap board'.flags) \subseteq (CastlingRights \cap board.flags)]_vars

\* C13 witness: a rook that held a right has been captured on its corner by
\* a rook leaving its own corner: both rights are cleared, the enemy rook
\* stands on the corner, and the other two rights are still set
C13_Witness ==
    /\ ply > 0
    /\ 56 \in board.bitboards["Rook"] \cap board.white
    /\ 0 \notin board.occupied
    /\ CastlingRights \cap board.flags = {"WHITE_KING_SIDE_CASTLE", "BLACK_KING_SIDE_CASTLE"}
    /\ RightsAtHome(board)

\* The castles of a colour: the right, the king's origin and destination,
\* the squares between king and rook, and the squares the king crosses and
\* lands on
Castles(color) ==
    IF color = White
    THEN {[right |-> "WHITE_KING_SIDE_CASTLE", from |-> 4, to |-> 6,
           between |-> {5, 6}, transit |-> {5, 6}],
          [right |-> "WHITE_QUEEN_SIDE_CASTLE", from |-> 4, to |-> 2,
           between |-> {1, 2, 3}, transit |-> {3, 2}]}
    ELSE {[right |-> "BLACK_KING_SIDE_CASTLE", from |-> 60, to |-> 62,
           between |-> {61, 62}, transit |-> {61, 62}],
          [right |-> "BLACK_QUEEN_SIDE_CASTLE", from |-> 60, to |-> 58,
           between |-> {57, 58, 59}, transit |-> {59, 58}]}

\* The rules allow the castle c to the side to move of board b
CastleAllowed(b, c) ==
    LET view == RefView(b)
        color == next_to_move(b)
    IN /\ c.right \in b.flags
       /\ ~RefInCheck(view, color)
       /\ \A s \in c.between : view[s] = <<>>
       /\ \A s \in c.transit : ~RefAttacked(view, s, opposite(color))

\* C14: on a valid board generate_moves returns the castle of a right of
\* the side to move, as a king move of two squares flagged CASTLE, exactly
\* when the right is set, the side is not in check, the squares between king
\* and rook are empty and the squares the king crosses and lands on are not
\* attacked; it returns each castle once and no other move flagged CASTLE.
\* The b-file square is in between but not in transit, so an attack on it
\* alone prevents nothing.
C14_CastlingMoves ==
    ValidBoard(board) =>
        \A generated \in {generate_moves(board)} :
            LET castles == {i \in 1..Len(generated.moves) :
                               "CASTLE" \in generated.moves[i].flags}
            IN /\ \A c \in Castles(next_to_move(board)) :
                     LET emitted == {i \in castles :
                                        generated.moves[i] =
                                            Move(c.from, c.to, "King", NoPiece, {"CASTLE"})}
                     IN Cardinality(emitted) = (IF CastleAllowed(board, c) THEN 1 ELSE 0)
               /\ \A i \in castles :
                     \E c \in Castles(next_to_move(board)) :
                         /\ generated.moves[i].from = c.from
                         /\ generated.moves[i].to = c.to

\* C14 witness: after moves of both sides White may castle queen side while
\* an enemy piece attacks b1, and the castle is generated
C14_Witness ==
    /\ ply > 0
    /\ ValidBoard(board)
    /\ next_to_move(board) = White
    /\ RefAttacked(RefView(board), 1, Black)
    /\ \E c \in Castles(White) :
          /\ c.to = 2
          /\ CastleAllowed(board, c)
          /\ \E i \in 1..Len(generate_moves(board).moves) :
                generate_moves(board).moves[i] = Move(4, 2, "King", NoPiece, {"CASTLE"})

\* The children of a node, by their references: push_child appends, so a
\* child emitted later has the greater reference
Children(tree, noderef) == {c \in 1..(Len(tree) - 1) : Node(tree, c).parent = noderef}

\* The children of a node whose score is best for the side to move there:
\* the maximum for White, the minimum for Black
BestChildren(tree, noderef) ==
    LET color == next_to_move(Node(tree, noderef).board)
    IN {c \in Children(tree, noderef) :
           \A d \in Children(tree, noderef) :
               IF color = White THEN Node(tree, d).score <= Node(tree, c).score
               ELSE Node(tree, d).score >= Node(tree, c).score}

\* The line from a node down that takes a best child at each node and, among
\* equal ones, the first emitted or the last emitted
RECURSIVE BestLine(_, _, _)
BestLine(tree, noderef, first_emitted) ==
    LET best == BestChildren(tree, noderef)
        chosen == CHOOSE c \in best :
                      \A d \in best : IF first_emitted THEN c <= d ELSE c >= d
    IN IF best = {} THEN <<>>
       ELSE Node(tree, chosen).move \o BestLine(tree, chosen, first_emitted)

\* What derive_results and the bestmove line give for a tree whose line of
\* best children is line
ResultOfLine(tree, line) ==
    /\ PrincipalVariation(tree, ROOT) = line
    /\ (line = <<>>) <=> (derive_results(tree) = None)
    /\ line # <<>> =>
          /\ derive_results(tree)[1].pv = line
          /\ derive_results(tree)[1].best_move = line[1]
          /\ BestMoveLine(tree).best = uci(line[1])
          /\ BestMoveLine(tree).ponder = (IF Len(line) >= 2 THEN Some(uci(line[2])) ELSE None)

\* C15 as stated: the principal variation of every search tree takes at
\* each node the child with the best score for the side to move and, among
\* children of equal score, the one emitted first; best_move is its first
\* move and the ponder move its second.
C15_FirstEmittedTie ==
    \A w \in 1..Len(workers) :
        ResultOfLine(workers[w].ctx, BestLine(workers[w].ctx, ROOT, TRUE))

\* C15 amended: as stated, but among children of equal score the one
\* emitted last is chosen: push_child puts each new child at the head of the
\* sibling list and minmax_cmp is strict, so the walk keeps the earliest
\* sibling of the list that no later one beats.
C15_LastEmittedTie ==
    \A w \in 1..Len(workers) :
        ResultOfLine(workers[w].ctx, BestLine(workers[w].ctx, ROOT, FALSE))

\* C15 witness: a search has ended on a tree whose root has several best
\* children and whose principal variation has a second move; the bestmove
\* line printed names the last emitted of them and a ponder move
C15_Witness ==
    \E w \in 1..Len(workers) :
        LET tree == workers[w].ctx
            line == BestLine(tree, ROOT, FALSE)
        IN /\ workers[w].pc = "finished"
           /\ workers[w].print
           /\ Cardinality(BestChildren(tree, ROOT)) >= 2
           /\ Len(line) >= 2
           /\ line # BestLine(tree, ROOT, TRUE)
           /\ workers[w].out[Len(workers[w].out)] = BestMoveLine(tree)
           /\ BestMoveLine(tree).best = uci(line[1])
           /\ BestMoveLine(tree).ponder = Some(uci(line[2]))

\* The outcome of expanding a node whose board is b: whether generate_moves
\* returns no move, and the flag and the score such a node then gets:
\* checkmate won by the side not to move, with the score that is worst for
\* the side to move, when generate_moves reports check; stalemate and 0
\* otherwise
TerminalOutcome(b) ==
    Only({ [no_move |-> g.moves = <<>> /\ ~g.panic,
            flags |-> IF g.currently_in_check
                      THEN (IF "WHITE_TO_MOVE" \in b.flags THEN {"CHECKMATE_BLACK_WIN"}
                            ELSE {"CHECKMATE_WHITE_WIN"})
                      ELSE {"STALEMATE"},
            score |-> IF g.currently_in_check
                      THEN (IF "WHITE_TO_MOVE" \in b.flags THEN NEG_INFINITY ELSE INFINITY)
                      ELSE 0] : g \in {generate_moves(b)} })

\* The node the worker is about to expand: it is at the pop with an
\* Evaluating frame on top whose node has no child and is due in this epoch
Expanding(wk, noderef) ==
    /\ wk.pc = "pop"
    /\ wk.stack # <<>>
    /\ wk.stack[Len(wk.stack)].kind = "Evaluating"
    /\ wk.stack[Len(wk.stack)].noderef = noderef
    /\ Node(wk.ctx, noderef).first_child = 0
    /\ should_evaluate(Node(wk.ctx, noderef), wk.epoch)

\* A terminal node carries one flag, the score that goes with it, and no child
TerminalShape(tree, noderef) ==
    LET node == Node(tree, noderef)
    IN /\ node.flags \in {{"CHECKMATE_WHITE_WIN"}, {"CHECKMATE_BLACK_WIN"}, {"STALEMATE"}}
       /\ node.flags = {"CHECKMATE_BLACK_WIN"}
            => node.score = NEG_INFINITY /\ "WHITE_TO_MOVE" \in node.board.flags
       /\ node.flags = {"CHECKMATE_WHITE_WIN"}
            => node.score = INFINITY /\ "WHITE_TO_MOVE" \notin node.board.flags
       /\ node.flags = {"STALEMATE"} => node.score = 0
       /\ node.first_child = 0
       /\ \A c \in 0..(Len(tree) - 1) : c # noderef => Node(tree, c).parent # noderef

\* One step of a worker, seen from node noderef of its tree: a terminal node
\* is left as it is; a node becomes terminal only by being expanded with no
\* move, and then with the flag and score of TerminalOutcome; a node expanded
\* with no move becomes terminal and gets no child
TerminalStep(wk, after, noderef) ==
    LET node == Node(wk.ctx, noderef)
        later == Node(after.ctx, noderef)
    IN /\ is_terminal(node) => later = node
       /\ (Expanding(wk, noderef) /\ after # wk)
            => \A outcome \in {TerminalOutcome(node.board)} :
                  outcome.no_move
                    => /\ later.flags = outcome.flags
                       /\ later.score = outcome.score
                       /\ later.first_child = 0
                       /\ Len(after.ctx) = Len(wk.ctx)
       /\ (~is_terminal(node) /\ is_terminal(later))
            => /\ Expanding(wk, noderef)
               /\ \A outcome \in {TerminalOutcome(node.board)} :
                     /\ outcome.no_move
                     /\ later.flags = outcome.flags
                     /\ later.score = outcome.score

\* C16: a node expanded while generate_moves returns no move is flagged and
\* scored by TerminalOutcome (checkmate for the other side with -infinity
\* when White is to move and +infinity when Black is, else STALEMATE and 0);
\* a node is flagged in no other way, a new node is never flagged, and a
\* flagged node has no child and is never changed again.
C16_TerminalNodes ==
    /\ [](\A w \in 1..Len(workers) : \A n \in 0..(Len(workers[w].ctx) - 1) :
            is_terminal(Node(workers[w].ctx, n)) => TerminalShape(workers[w].ctx, n))
    /\ [][\A w \in 1..Len(workers) :
            /\ \A n \in 0..(Len(workers[w].ctx) - 1) :
                  TerminalStep(workers[w], workers'[w], n)
            /\ \A n \in Len(workers[w].ctx)..(Len(workers'[w].ctx) - 1) :
                  ~is_terminal(Node(workers'[w].ctx, n))]_vars

\* C16 witness: in its third epoch a search holds, below the root, a node
\* flagged as a checkmate in an earlier pass, with its score at infinity
\* and without children
C16_Witness ==
    \E w \in 1..Len(workers) : \E n \in 1..(Len(workers[w].ctx) - 1) :
        LET node == Node(workers[w].ctx, n)
        IN /\ workers[w].epoch >= 3
           /\ node.flags \in {{"CHECKMATE_WHITE_WIN"}, {"CHECKMATE_BLACK_WIN"}}
           /\ node.score \in {INFINITY, NEG_INFINITY}
           /\ node.score = TerminalOutcome(node.board).score
           /\ node.first_child = 0

\* One step of a worker seen from its epoch counter: when it pops an empty
\* stack the epoch grows by exactly 1 and the stack is the one frame
\* Evaluating(ROOT, -infinity, +infinity), with an info line of that new
\* epoch when print is on and the root has children; no other step changes
\* the epoch
EpochStep(wk, after) ==
    /\ (wk.pc = "pop" /\ wk.stack = <<>> /\ after # wk)
         => /\ after.epoch = wk.epoch + 1
            /\ after.stack = <<EvaluatingEntry(ROOT, NEG_INFINITY, INFINITY)>>
            /\ (wk.print /\ Node(wk.ctx, ROOT).first_child # 0)
                 => /\ Len(after.out) = Len(wk.out) + 1
                    /\ after.out[Len(after.out)].kind = "info"
                    /\ after.out[Len(after.out)].depth = after.epoch
    /\ after.epoch # wk.epoch => wk.pc = "pop" /\ wk.stack = <<>>

\* C17: each time the evaluation stack is found empty, epoch is incremented
\* by exactly 1 and exactly one Evaluating(ROOT, -infinity, +infinity) frame
\* is pushed, so that the passes run for epochs 1, 2, 3, ... with none
\* skipped or repeated; with print on and a root that has children the step
\* emits an info line whose depth is the incremented epoch.
C17_EpochsInOrder ==
    [][\A w \in 1..Len(workers) : EpochStep(workers[w], workers'[w])]_vars

\* The search thread w has neither returned nor panicked
Alive(w) == ~ThreadFinished(w)

\* The workers started by the SimpleAi that owns the stop flag stop_signal
WorkersOf(stop_signal) ==
    {w \in 1..Len(workers) : workers[w].stop_signal = stop_signal}

\* C18: at most one search worker thread is alive per SimpleAi: a step that
\* spawns a worker finds every earlier worker of that SimpleAi finished, and
\* leaves the stop flag cleared; and a step that sets the stop flag of a
\* SimpleAi is a request to the worker registered at that moment, the only
\* one of its workers that can be alive, so that no worker is cancelled by
\* a request made to its predecessor.
C18_OneWorkerPerAi ==
    /\ [](\A s \in 1..Len(stop_signals) :
            \A w1 \in WorkersOf(s), w2 \in WorkersOf(s) :
               (Alive(w1) /\ Alive(w2)) => w1 = w2)
    /\ [][/\ Len(workers') > Len(workers)
            => /\ Len(workers') = Len(workers) + 1
               /\ ~stop_signals'[workers'[Len(workers')].stop_signal]
               /\ ai'.thread = Len(workers')
               /\ \A w \in WorkersOf(workers'[Len(workers')].stop_signal) : ~Alive(w)
          /\ \A s \in 1..Len(stop_signals) :
               (~stop_signals[s] /\ stop_signals'[s])
                 => \A w \in WorkersOf(s) : Alive(w) => ai.thread = w]_vars

\* C18 witness: a second start has stopped and joined the worker of the
\* first, and its own worker is searching with the stop flag cleared
C18_Witness ==
    /\ Len(workers) = 2
    /\ workers[1].stop_signal = workers[2].stop_signal
    /\ workers[1].pc = "finished"
    /\ workers[2].pc \in {"loop", "pop"}
    /\ workers[2].epoch >= 1
    /\ ~stop_signals[workers[2].stop_signal]
    /\ ai.thread = 2

\* No search is in flight: no worker thread is registered, or the registered
\* one has finished
NoSearchInFlight == ai.thread = 0 \/ ThreadFinished(ai.thread)

\* C19: between two commands, SimpleAi::is_ready returns true exactly when
\* no search is in flight, and false while a worker is still running.
C19_IsReady == main.pc = "idle" => (is_ready <=> NoSearchInFlight)

\* The reference ray cast of the piece of a find_magic call or of a lookup
ReferenceRaycast(is_bishop, square, occ) ==
    IF is_bishop THEN BitboardBishopRaycast({square}, occ)
    ELSE BitboardRookRaycast({square}, occ)

\* The entry that the k-th find_magic call of generate has filled, and the
\* slots of the attack table that the call has appended
EntryOfCall(k) ==
    IF GenerateCalls[k].is_bishop THEN magic.bishop[GenerateCalls[k].square]
    ELSE magic.rook[GenerateCalls[k].square]

SlotsOfCall(k) ==
    EntryOfCall(k).offset ..
        ((IF k < magic.calls THEN EntryOfCall(k + 1).offset ELSE Len(magic.attack_table)) - 1)

\* The magic number of every call made so far sends every blocker subset of
\* the mask to a slot of that call which holds the reference attack set of
\* the subset: subsets that meet in a slot have equal attack sets
TableSound ==
    \A k \in 1..magic.calls :
       \A entry \in {EntryOfCall(k)} : \A slots \in {SlotsOfCall(k)} :
       \A blockers \in SUBSET entry.mask :
          \A index \in {entry.offset + transform(blockers, entry.magic, entry.bits)} :
             /\ index \in slots
             /\ magic.attack_table[index + 1]
                  = ReferenceRaycast(GenerateCalls[k].is_bishop, GenerateCalls[k].square,
                                     blockers)

\* The last ray cast has read a slot of its own square that is in use, and
\* has returned the reference attack set of its occupancy
RaycastSound ==
    \A cast \in {raycast[1]} :
       /\ ~cast.result.panic
       /\ cast.result.value = ReferenceRaycast(cast.is_bishop, cast.square, cast.occupancy)
       /\ ~magic.debug_assertions
            => /\ cast.result.value # {}
               /\ \E k \in 1..magic.calls :
                     /\ GenerateCalls[k] = [square |-> cast.square, is_bishop |-> cast.is_bishop]
                     /\ cast.result.index \in SlotsOfCall(k)

\* C20: for the squares generated and every occupancy, the magic lookup
\* attack_table[offset + (((occ & mask) * magic) mod 2^64 >> (64 - bits))]
\* is the reference ray cast of the rook or the bishop on that square with
\* blockers occ, for every magic number find_magic accepts: blocker subsets
\* that map to the same index have equal attack sets, and the lookup reads
\* neither an unused slot nor a slot of another square.
C20_MagicLookup ==
    /\ (magic # None /\ raycast = None) => TableSound
    /\ raycast # None => RaycastSound

\* C20 witness: with slots of another square before them in the table, one
\* of them left unused, a lookup for the bishop on b2 has read a slot that
\* two different blocker subsets share, for an occupancy that holds the
\* square of the bishop, a blocker of the mask and squares outside the mask
C20_Witness ==
    /\ raycast # None
    /\ ~magic.debug_assertions
    /\ raycast[1].is_bishop
    /\ ~raycast[1].result.panic
    /\ \A cast \in {raycast[1]} : \A entry \in {magic.bishop[raycast[1].square]} :
          /\ entry.offset > 0
          /\ cast.square \in cast.occupancy
          /\ cast.occupancy \cap entry.mask # {}
          /\ cast.occupancy \ (entry.mask \cup {cast.square}) # {}
          /\ cast.result.value = ReferenceRaycast(TRUE, cast.square, cast.occupancy)
          /\ \E other \in SUBSET entry.mask :
                /\ other # cast.occupancy \cap entry.mask
                /\ entry.offset + transform(other, entry.magic, entry.bits) = cast.result.index
          /\ \E j \in 1..Len(magic.attack_table) :
                j <= entry.offset /\ magic.attack_table[j] = {}

\* C21: Bitboard::scan yields every set square of the bitboard exactly once
\* and in ascending index order, and no square that is not set; stated of
\* the occupied squares of the board, which generate_moves scans by piece.
C21_ScanAscending ==
    \A yielded \in {scan(board.occupied)} :
       /\ Len(yielded) = Cardinality(board.occupied)
       /\ {yielded[i] : i \in 1..Len(yielded)} = board.occupied
       /\ \A i \in 1..Len(yielded), j \in 1..Len(yielded) : i < j => yielded[i] < yielded[j]

\* Parsing a FEN string and emitting the board again gives the string back
FenRoundTrip(fen_string) ==
    \A parsed \in {from_fen(fen_string)} :
       parsed # None /\ BoardFen(parsed[1]) = fen_string

\* C22: parsing and re-emitting a FEN is lossless: fen(from_fen(F)) = F for
\* the FEN that fen() produces from the board reached, and for every valid
\* standard FEN of six fields.
C22_FenRoundTrip ==
    /\ FenRoundTrip(BoardFen(board))
    /\ \A fen_string \in StandardFens : FenRoundTrip(fen_string)

\* The part of C22 about the strings the system itself produces
OwnFenRoundTrip == verify(board) => FenRoundTrip(BoardFen(board))

\* C23: on a valid board, every generated move written by uci and read back
\* by from_uci against the same board comes back as Some of a move with the
\* same from, to, piece, promotion and flags.
C23_UciRoundTrip ==
    ValidBoard(board) =>
        \A generated \in {generate_moves(board)} :
            \A i \in 1..Len(generated.moves) :
                \A read \in {from_uci(uci(generated.moves[i]), board)} :
                    /\ read # None
                    /\ read[1].from = generated.moves[i].from
                    /\ read[1].to = generated.moves[i].to
                    /\ read[1].piece = generated.moves[i].piece
                    /\ read[1].promotion = generated.moves[i].promotion
                    /\ read[1].flags = generated.moves[i].flags

\* C23 witness: a move has been played into a valid board whose generated
\* list holds an en passant capture that from_uci reads back with its flag
C23_Witness ==
    /\ ply > 0
    /\ ValidBoard(board)
    /\ \E generated \in {generate_moves(board)} :
          \E i \in 1..Len(generated.moves) :
              /\ "EN_PASSANT" \in generated.moves[i].flags
              /\ from_uci(uci(generated.moves[i]), board) = Some(generated.moves[i])

\* The children of a node
ChildrenOf(tree, noderef) ==
    {c \in 1..(Len(tree) - 1) : Node(tree, c).parent = noderef}

\* The best of a non-empty set of scores for the side to move
BestScore(color, scores) ==
    CHOOSE s \in scores : \A t \in scores : minmax(color, s, t) = s

\* The depth-limited minimax value of a position: the static evaluation at
\* depth 0, the score of the terminal outcome where no move is generated,
\* else the best value of the positions after each generated move
RECURSIVE MinimaxValue(_, _)
MinimaxValue(position, depth) ==
    IF depth = 0 THEN evaluate(position)
    ELSE Only({IF generated.moves = <<>>
               THEN (IF generated.currently_in_check THEN minmax_ini(color) ELSE 0)
               ELSE Only({BestScore(color, scores) :
                          scores \in {{MinimaxValue(apply(generated.moves[i], position),
                                                    depth - 1) :
                                       i \in 1..Len(generated.moves)}}}) :
               generated \in {generate_moves(position)},
               color \in {next_to_move(position)}})

\* The stack of a worker has emptied at the end of the pass for its epoch
PassCompleted(wk) ==
    /\ wk.pc \in {"loop", "pop"}
    /\ wk.stack = <<>>
    /\ wk.epoch >= 1

\* The depth-limited minimax value of a position under the rules of chess:
\* as MinimaxValue, over the legal moves
RECURSIVE LegalMinimaxValue(_, _)
LegalMinimaxValue(position, depth) ==
    IF depth = 0 THEN evaluate(position)
    ELSE Only({IF legal = {}
               THEN (IF RefInCheck(RefView(position), color) THEN minmax_ini(color) ELSE 0)
               ELSE Only({BestScore(color, scores) :
                          scores \in {{LegalMinimaxValue(apply(m, position), depth - 1) :
                                       m \in legal}}}) :
               legal \in {RefLegalMoves(position)},
               color \in {next_to_move(position)}})

\* The tree at the end of a pass of the search without pruning: the scores
\* of the inner nodes and the shape of the frontier
MinimaxTree(tree, epoch) ==
    \A n \in 0..(Len(tree) - 1) :
       \A node \in {Node(tree, n)} :
          /\ node.first_child # 0 =>
                \A scores \in {{Node(tree, c).score : c \in ChildrenOf(tree, n)}} :
                   node.score = BestScore(next_to_move(node.board), scores)
          /\ (node.first_child = 0 /\ ~is_terminal(node)) =>
                /\ node.depth = epoch
                /\ node.score = evaluate(node.board)

\* Without pruning, at the end of each pass the tree has the shape of
\* MinimaxTree and the root score is the depth-e value over the moves that
\* generate_moves returns
GeneratedMinimaxAtPassEnd ==
    ~pruning =>
        \A w \in 1..Len(workers) :
            PassCompleted(workers[w]) =>
                /\ MinimaxTree(workers[w].ctx, workers[w].epoch)
                /\ Node(workers[w].ctx, ROOT).score
                      = MinimaxValue(Node(workers[w].ctx, ROOT).board, workers[w].epoch)

\* C24: without pruning, whenever the stack has emptied at the end of the
\* pass for epoch e, every node with children carries the best of its
\* children's scores for its side to move, every childless node that is not
\* terminal is at depth e with its static evaluation, and the root score is
\* the depth-e minimax value of the root position.
C24_MinimaxAtPassEnd ==
    ~pruning =>
        \A w \in 1..Len(workers) :
            PassCompleted(workers[w]) =>
                /\ MinimaxTree(workers[w].ctx, workers[w].epoch)
                /\ Node(workers[w].ctx, ROOT).score
                      = LegalMinimaxValue(Node(workers[w].ctx, ROOT).board,
                                          workers[w].epoch)

\* The tree with the score of each child of the root replaced by the
\* minimax value of its position at the remaining depth: the scores the
\* children of the root carry at the end of a pass without pruning
WithExactRootChildren(tree, epoch) ==
    [n \in 1..Len(tree) |->
        IF n > 1 /\ tree[n].parent = ROOT
        THEN [tree[n] EXCEPT !.score = MinimaxValue(tree[n].board, epoch - 1)]
        ELSE tree[n]]

\* best_move of a result, None when there is no result
BestMoveOf(result) == IF result = None THEN None ELSE Some(result[1].best_move)

\* The outcome of a completed pass equals the outcome of the pass without
\* pruning: the root score is the minimax value over the generated moves
\* and best_move is the one derive_results takes from the exact scores
UnprunedOutcome(tree, epoch) ==
    /\ Node(tree, ROOT).score = MinimaxValue(Node(tree, ROOT).board, epoch)
    /\ \A exact \in {WithExactRootChildren(tree, epoch)} :
          BestMoveOf(derive_results(tree)) = BestMoveOf(derive_results(exact))

\* A node the pass has skipped: it lies above the depth of the pass, is not
\* terminal and has never been expanded
Skipped(tree, epoch, n) ==
    /\ Node(tree, n).depth < epoch
    /\ Node(tree, n).first_child = 0
    /\ ~is_terminal(Node(tree, n))

\* C25: after every completed pass the search with alpha_beta_soft_pruning
\* has the root score and the best_move of the search without it (which, by
\* the same formula, are the minimax value and the move derived from the
\* exact scores of the root's children).
C25_PruningKeepsOutcome ==
    \A w \in 1..Len(workers) :
        PassCompleted(workers[w]) => UnprunedOutcome(workers[w].ctx, workers[w].epoch)

\* C25 witness: a pruned search has completed its pass for an epoch above 1
\* leaving a skipped node and an inner node whose score is not the best of
\* its children's scores, and has the outcome of the search without pruning
C25_Witness ==
    /\ pruning
    /\ \E w \in 1..Len(workers) :
          /\ PassCompleted(workers[w])
          /\ workers[w].epoch >= 2
          /\ \E n \in 1..(Len(workers[w].ctx) - 1) :
                Skipped(workers[w].ctx, workers[w].epoch, n)
          /\ ~MinimaxTree(workers[w].ctx, workers[w].epoch)
          /\ UnprunedOutcome(workers[w].ctx, workers[w].epoch)

\* ------------------------------------------------------------------------
\* Searches under a depth limit: go depth d, then stop at any time
\* ------------------------------------------------------------------------

\* The largest depth limit given to a search
MaxDepthLimit == 4

DepthLimits == {AiLimit(None, Some(d)) : d \in 0..MaxDepthLimit}

DepthPositions == {EnPassantSearchBoard, OneMoveBoard, RookMateWhiteBoard}

DepthInit == InitWith(DepthPositions, BOOLEAN)

DepthNext ==
    \/ start(DepthLimits, {TRUE}, 1)
    \/ stop
    \/ StopJoined
    \/ \E w \in 1..Len(workers) : WorkerStep(w, MaxEpoch, MaxNodes)

SpecDepth == DepthInit /\ [][DepthNext]_vars

\* A worker under a depth limit alone
DepthLimited(wk) == wk.limits.depth # None /\ wk.limits.movetime = None

\* The loop of a depth-limited worker seen from its tests: no pop at or
\* beyond the limit, the epoch never beyond the limit, and at the limit the
\* pass of that epoch pushed and not executed
DepthTestBeforePop(wk) ==
    \A d \in {wk.limits.depth[1]} :
       /\ wk.pc = "pop" => wk.epoch < d
       /\ wk.epoch <= d
       /\ \A n \in 0..(Len(wk.ctx) - 1) : Node(wk.ctx, n).depth < (IF d = 0 THEN 1 ELSE d)
       /\ (wk.pc = "loop" /\ wk.epoch = d /\ d >= 1)
             => wk.stack = <<EvaluatingEntry(ROOT, NEG_INFINITY, INFINITY)>>

\* A depth-limited worker that has returned for a limit of 0 or 1: the root
\* was never expanded, there is no result and the line is bestmove (none)
ShallowLimit(wk) ==
    (wk.pc = "finished" /\ wk.limits.depth[1] <= 1) =>
        /\ Len(wk.ctx) = 1
        /\ Node(wk.ctx, ROOT).first_child = 0
        /\ derive_results(wk.ctx) = None
        /\ wk.print =>
              wk.out = <<[kind |-> "bestmove", best |-> <<"(", "n", "o", "n", "e", ")">>,
                          ponder |-> None]>>

\* A depth-limited worker whose thread has ended with its stop signal clear
\* has returned through the depth test, at the epoch of its limit
EndsAtLimit(wk) ==
    (wk.pc \notin {"spawned", "loop", "pop"} /\ ~stop_signals[wk.stop_signal]) =>
        /\ wk.pc = "finished"
        /\ wk.epoch = wk.limits.depth[1]

\* The parts of C26 that hold in every state of SpecDepth
DepthTestAndShallowLimit ==
    \A w \in 1..Len(workers) :
        DepthLimited(workers[w]) =>
            /\ DepthTestBeforePop(workers[w])
            /\ ShallowLimit(workers[w])

\* C26: under a depth limit d alone and without stop, the depth test comes
\* before every pop, the thread ends only by leaving the loop at epoch = d,
\* with the passes below d completed and the pass for epoch d pushed and not
\* executed, and for d = 0 and d = 1 the root is never expanded, there is
\* no result and the line printed is bestmove (none).
C26_DepthLimit ==
    \A w \in 1..Len(workers) :
        DepthLimited(workers[w]) =>
            /\ DepthTestBeforePop(workers[w])
            /\ ShallowLimit(workers[w])
            /\ EndsAtLimit(workers[w])

\* The links of the arena that name a node: the first_child and
\* next_siblings links that are not None, each with the node that holds it
LinksOf(tree) ==
    {<<"first_child", n, Node(tree, n).first_child>> :
        n \in {x \in 0..(Len(tree) - 1) : Node(tree, x).first_child # 0}}
    \cup {<<"next_siblings", n, Node(tree, n).next_siblings>> :
        n \in {x \in 0..(Len(tree) - 1) : Node(tree, x).next_siblings # 0}}

\* The arena is a tree hanging from ROOT: every link names a node of the
\* arena, a first_child link names a child of its holder and a
\* next_siblings link an older child of the same parent, a child lies one
\* level below its parent, and every node but the root is named by exactly
\* one link
ArenaIsTree(tree) ==
    /\ Node(tree, ROOT).parent = ROOT
    /\ Node(tree, ROOT).next_siblings = 0
    /\ Node(tree, ROOT).depth = 0
    /\ \A n \in 1..(Len(tree) - 1) :
          /\ Node(tree, n).parent < n
          /\ Node(tree, n).depth = Node(tree, Node(tree, n).parent).depth + 1
    /\ \A links \in {LinksOf(tree)} :
          /\ \A link \in links :
                /\ link[3] \in 1..(Len(tree) - 1)
                /\ link[1] = "first_child" => Node(tree, link[3]).parent = link[2]
                /\ link[1] = "next_siblings" =>
                      /\ Node(tree, link[3]).parent = Node(tree, link[2]).parent
                      /\ link[3] < link[2]
          /\ {link[3] : link \in links} = 1..(Len(tree) - 1)
          /\ Cardinality(links) = Len(tree) - 1

\* One step of a search seen from its arena: no node leaves, an existing
\* node keeps its move, depth, board, parent and next_siblings link, and
\* its first_child link once it has one; the new nodes are the children of
\* one node that had none
ArenaStep(before, after) ==
    /\ Len(after) >= Len(before)
    /\ \A n \in 0..(Len(before) - 1) :
          \A old \in {Node(before, n)}, new \in {Node(after, n)} :
             /\ new.move = old.move
             /\ new.depth = old.depth
             /\ new.board = old.board
             /\ new.parent = old.parent
             /\ new.next_siblings = old.next_siblings
             /\ old.first_child # 0 => new.first_child = old.first_child
             /\ new.first_child # old.first_child => new.first_child >= Len(before)
    /\ \A n \in Len(before)..(Len(after) - 1) :
          /\ Node(after, n).parent = Node(after, Len(before)).parent
          /\ Node(before, Node(after, n).parent).first_child = 0
          /\ Node(after, n).first_child = 0

\* push_child on the arena of a state, under the root and under the newest
\* node: one node more, the new node last and first in the parent's child
\* list, ahead of the former first child, and no other change
PushChildAppends(tree) ==
    \A noderef \in {ROOT, Len(tree) - 1} :
       \A value \in {TreeEntry(None, Node(tree, noderef).depth + 1, 0,
                               Node(tree, noderef).board, {})} :
          \A pushed \in {push_child(tree, noderef, value)} :
             /\ Len(pushed) = Len(tree) + 1
             /\ \A n \in (0..(Len(tree) - 1)) \ {noderef} : Node(pushed, n) = Node(tree, n)
             /\ Node(pushed, noderef)
                   = [Node(tree, noderef) EXCEPT !.first_child = Len(tree)]
             /\ Node(pushed, Len(tree))
                   = [value EXCEPT !.parent = noderef,
                                   !.next_siblings = Node(tree, noderef).first_child]

\* C27: in every search the arena is a tree hanging from ROOT in which
\* every node but the root is reached through exactly one first-child or
\* next-sibling link and lies one level below its parent; push_child adds
\* exactly one node and changes only the parent's first_child link; and
\* from step to step no node leaves or is relinked, and only a node
\* without children receives children.
C27_ArenaOnlyGrows ==
    /\ [](\A w \in 1..Len(workers) :
            ArenaIsTree(workers[w].ctx) /\ PushChildAppends(workers[w].ctx))
    /\ [][\A w \in 1..Len(workers) : ArenaStep(workers[w].ctx, workers'[w].ctx)]_vars

\* C27 witness: a search holds a tree with grandchildren of the root, in
\* which a node has at least two children linked as siblings
C27_Witness ==
    \E w \in 1..Len(workers) :
        /\ ArenaIsTree(workers[w].ctx)
        /\ \E n \in 1..(Len(workers[w].ctx) - 1) :
              /\ Node(workers[w].ctx, n).depth = 2
              /\ Node(workers[w].ctx, n).next_siblings # 0

\* The king, a square and a destination lie on one straight line
Collinear(king_square, from, to) ==
    (RefFile(from) - RefFile(king_square)) * (RefRank(to) - RefRank(king_square))
        = (RefRank(from) - RefRank(king_square)) * (RefFile(to) - RefFile(king_square))

\* The squares strictly between two squares of one rank, file or diagonal
RefBetween(s, t) ==
    LET df == RefFile(t) - RefFile(s)
        dr == RefRank(t) - RefRank(s)
        n == IF RefAbs(df) > RefAbs(dr) THEN RefAbs(df) ELSE RefAbs(dr)
    IN {s + k * (signum(df) + 8 * signum(dr)) : k \in 1..(n - 1)}

\* The pieces of the side to move that are pinned to their king: the only
\* piece between the king and an enemy rook or queen on a rank or file of
\* the king, or an enemy bishop or queen on a diagonal of the king
RefPinned(position) ==
    LET view == RefView(position)
        color == next_to_move(position)
        king_square == CHOOSE s \in Squares : view[s] = <<color, "King">>
        Pins(q) ==
            LET df == RefFile(q) - RefFile(king_square)
                dr == RefRank(q) - RefRank(king_square)
                straight == (df = 0) # (dr = 0)
                diagonal == RefAbs(df) = RefAbs(dr) /\ df # 0
            IN /\ view[q] # <<>>
               /\ view[q][1] = opposite(color)
               /\ \/ straight /\ view[q][2] \in {"Rook", "Queen"}
                  \/ diagonal /\ view[q][2] \in {"Bishop", "Queen"}
    IN {s \in Squares :
          /\ view[s] # <<>>
          /\ view[s][1] = color
          /\ \E q \in Squares :
                /\ Pins(q)
                /\ s \in RefBetween(king_square, q)
                /\ \A x \in RefBetween(king_square, q) \ {s} : view[x] = <<>>}

\* The elements of a sequence
Elements(seq) == {seq[i] : i \in 1..Len(seq)}

\* The pin filter on a position: the bitboard it reads is the set of the
\* pinned pieces, a move of a pinned piece that stands in the list before
\* the filter is returned iff its destination lies on the line through the
\* king and the piece, and every listed move of another piece is returned
PinFilterExact(position) ==
    \A before \in {moves_before_retain(position)},
       returned \in {Elements(generate_moves(position).moves)},
       pinned \in {RefPinned(position)} :
          /\ before.pinned_bitboard = pinned
          /\ returned \subseteq Elements(before.moves)
          /\ \A i \in 1..Len(before.moves) :
                \A m \in {before.moves[i]} :
                   IF m.from \in pinned
                   THEN (m \in returned) <=> Collinear(before.king_square, m.from, m.to)
                   ELSE m \in returned

\* C28: on a valid board a move of a piece pinned to its king by an enemy
\* rook, bishop or queen is returned by generate_moves iff its destination
\* lies on the line through the king and the piece, and the pin filter
\* removes no move of a piece that is not pinned.
C28_PinFilter == ValidBoard(board) => PinFilterExact(board)

\* C28 witness: a move has been played into a valid board on which a pinned
\* piece captures its pinner along the pin while another of its moves, off
\* the line, has been removed by the filter
C28_Witness ==
    /\ ply > 0
    /\ ValidBoard(board)
    /\ PinFilterExact(board)
    /\ \E before \in {moves_before_retain(board)},
          returned \in {Elements(generate_moves(board).moves)} :
          \E i, j \in 1..Len(before.moves) :
             /\ before.moves[i].from \in RefPinned(board)
             /\ before.moves[j].from = before.moves[i].from
             /\ before.moves[i] \in returned
             /\ before.moves[i].to \in enemy_bitboard(board)
             /\ before.moves[j] \notin returned

\* A capture by a pawn starts on a file next to the file of its destination
\* and one rank behind it, seen from the mover
FromAdjacentFile(m, color) ==
    /\ RefAbs(RefFile(m.from) - RefFile(m.to)) = 1
    /\ RefRank(m.from) = RefRank(m.to) - (IF color = White THEN 1 ELSE -1)

\* Every ordinary pawn capture returned by generate_moves starts on an
\* adjacent file, one rank behind its destination
PawnCapturesAdjacent ==
    ValidBoard(board) =>
        \A generated \in {generate_moves(board)} :
            \A i \in 1..Len(generated.moves) :
                \A m \in {generated.moves[i]} :
                    (m.piece = "Pawn" /\ m.to \in board.occupied)
                        => FromAdjacentFile(m, next_to_move(board))

\* C29: every en passant move returned by generate_moves on a valid board
\* goes to the en passant square from a pawn on an adjacent file, one rank
\* behind that square from the mover's side; none starts on the opposite
\* edge file.
C29_EnPassantNoWrap ==
    ValidBoard(board) =>
        \A generated \in {generate_moves(board)} :
            \A i \in 1..Len(generated.moves) :
                \A m \in {generated.moves[i]} :
                    "EN_PASSANT" \in m.flags
                        => /\ m.to = board.en_passant_square
                           /\ FromAdjacentFile(m, next_to_move(board))

\* A worker under no depth limit on a root without a legal move: the
\* stalemated position of SpecEpochs
CyclingWorker(wk) ==
    /\ wk.limits.depth = None
    /\ Node(wk.ctx, ROOT).board = StalemateBoard

\* The tree of a worker on a root without a legal move stays the root
\* alone, without a result
RootAlone(wk) ==
    /\ Len(wk.ctx) = 1
    /\ Node(wk.ctx, ROOT).first_child = 0
    /\ PrincipalVariation(wk.ctx, ROOT) = <<>>

\* What holds of a worker that cycles on a root without a legal move, at
\* every epoch the counter can hold
CyclingAddsNoNode ==
    \A w \in 1..Len(workers) : CyclingWorker(workers[w]) => RootAlone(workers[w])

\* C30: a worker under no depth limit on a root without a legal move adds
\* no node and has no result, never fails, and never finds its stack empty
\* with the epoch counter at its largest value, so that epoch + 1 never
\* exceeds 65535.
C30_EpochNeverOverflows ==
    \A w \in 1..Len(workers) :
        CyclingWorker(workers[w]) =>
            /\ RootAlone(workers[w])
            /\ workers[w].pc # "panicked"
            /\ (workers[w].pc = "pop" /\ workers[w].stack = <<>>)
                  => workers[w].epoch + 1 <= U16_MAX

====
